---- MODULE Spec2Model ----
(***************************************************************************)
(* Complaint classification and branch resolution pipeline of the EPL      *)
(* complaints service: the plpgsql functions created by                    *)
(* setup-database-ia.js, the AnalizadorQuejas class of the IA server and    *)
(* the webhook of the basic server.                                        *)
(*                                                                         *)
(* Strings that the code searches, trims or compares case-insensitively    *)
(* are sequences of one-character strings; identifiers used only as labels *)
(* are plain strings.  DECIMAL(3,2) values are counted in hundredths.      *)
(***************************************************************************)
EXTENDS Integers, Sequences, FiniteSets, TLC

VARIABLES
  llamada,         \* a call of one component on its own: input and result
  programa,        \* the server that runs: "ia" or "basico"
  escuchando,      \* app.listen has been called
  cargador,        \* position of each call of cargarCaches
  categoriasCache, \* the module-level Map of the IA server
  prestados,       \* pool clients checked out and not released
  sol,             \* per submission: position and locals of its handler
  tx,              \* per submission: its transaction and uncommitted writes
  clientes,        \* committed rows of clientes
  quejas,          \* committed rows of quejas
  insights_ia,     \* committed rows of insights_ia
  serial           \* last value of the SERIAL sequences

arranque == <<programa, escuchando, cargador, categoriasCache>>
bd == <<clientes, quejas, insights_ia, serial>>
proceso == <<arranque, prestados, sol, tx, bd>>
vars == <<llamada, proceso>>

(***************************************************************************)
(* Bounds of the model.                                                    *)
(***************************************************************************)
\* Longest complaint text, in words of Vocabulario.
MaxPalabras == 3
\* Submissions received in a run.
MaxSolicitudes == 2

(***************************************************************************)
(* Characters and strings.                                                 *)
(***************************************************************************)
Mayusculas ==
  <<"A","B","C","D","E","F","G","H","I","J","K","L","M","N","O","P","Q","R",
    "S","T","U","V","W","X","Y","Z","Á","É","Í","Ó","Ú","Ñ">>

Minusculas ==
  <<"a","b","c","d","e","f","g","h","i","j","k","l","m","n","o","p","q","r",
    "s","t","u","v","w","x","y","z","á","é","í","ó","ú","ñ">>

\* One character of LOWER() / String.prototype.toLowerCase().
LowerChar(c) ==
  IF \E i \in DOMAIN Mayusculas : Mayusculas[i] = c
  THEN Minusculas[CHOOSE i \in DOMAIN Mayusculas : Mayusculas[i] = c]
  ELSE c

\* LOWER(texto) in SQL, texto.toLowerCase() in JavaScript.
LOWER(s) == [i \in 1..Len(s) |-> LowerChar(s[i])]

\* String.prototype.includes: k occurs in s as a contiguous substring.
includes(s, k) ==
  \E i \in 0..(Len(s) - Len(k)) : SubSeq(s, i + 1, i + Len(k)) = k

\* s LIKE p of SQL: "%" matches any run of characters, "_" exactly one,
\* every other character itself.
RECURSIVE LIKE(_, _)
LIKE(s, p) ==
  IF p = <<>> THEN s = <<>>
  ELSE IF Head(p) = "%"
       THEN \E i \in 0..Len(s) : LIKE(SubSeq(s, i + 1, Len(s)), Tail(p))
  ELSE IF s = <<>> THEN FALSE
  ELSE IF Head(p) = "_" THEN LIKE(Tail(s), Tail(p))
  ELSE Head(s) = Head(p) /\ LIKE(Tail(s), Tail(p))

\* '%' || x || '%'
Rodeado(x) == <<"%">> \o x \o <<"%">>

(***************************************************************************)
(* JavaScript / SQL values that are not strings.                           *)
(***************************************************************************)
\* undefined (a property the object does not have) and null / SQL NULL,
\* where a string is expected.
Undefined == <<"(undefined)">>
Null == <<"(null)">>

\* null where a label (a plain string) is expected.
NombreNulo == "(null)"

\* Values that are not strings: a number is its tag followed by the digits
\* of its decimal form, and an object and a Date stand for any of their kind.
Numero(cifras) == <<"(number)">> \o cifras
Objeto == <<"(object)">>
Fecha == <<"(date)">>

EsCadena(x) ==
  x = <<>> \/ Head(x) \notin {"(undefined)", "(null)", "(number)",
                              "(object)", "(date)"}

\* x.toString() for x a string, a number, a plain object or a Date.
toString(x) ==
  IF EsCadena(x) THEN x
  ELSE IF Head(x) = "(number)" THEN Tail(x)
  ELSE IF x = Objeto THEN <<"[","o","b","j","e","c","t"," ","O","b","j","e","c","t","]">>
  ELSE <<"T","u","e"," ","N","o","v"," ","0","3"," ","2","0","2","6"," ",
         "1","0",":","0","0",":","0","0"," ","G","M","T","-","0","6","0","0">>

\* !x of JavaScript for x a string, a number, an object, undefined or null.
Falsy(x) == x = Undefined \/ x = Null \/ x = <<>> \/ x = Numero(<<"0">>)

\* a || b
O(a, b) == IF Falsy(a) THEN b ELSE a

\* String.prototype.trim
EsEspacio(c) == c = " "

RECURSIVE trimStart(_)
trimStart(s) ==
  IF s # <<>> /\ EsEspacio(Head(s)) THEN trimStart(Tail(s)) ELSE s

RECURSIVE trimEnd(_)
trimEnd(s) ==
  IF s # <<>> /\ EsEspacio(s[Len(s)])
  THEN trimEnd(SubSeq(s, 1, Len(s) - 1)) ELSE s

trim(s) == trimEnd(trimStart(s))

\* String.prototype.substring(0, n)
substring0(s, n) == SubSeq(s, 1, IF Len(s) < n THEN Len(s) ELSE n)

(***************************************************************************)
(* analizar_sentimiento_basico (plpgsql).                                  *)
(***************************************************************************)
palabras_negativas ==
  << <<"m","a","l","o">>,
     <<"t","e","r","r","i","b","l","e">>,
     <<"h","o","r","r","i","b","l","e">>,
     <<"a","s","q","u","e","r","o","s","o">>,
     <<"p","é","s","i","m","o">>,
     <<"n","u","n","c","a">>,
     <<"j","a","m","á","s">>,
     <<"o","d","i","o">> >>

palabras_positivas ==
  << <<"b","u","e","n","o">>,
     <<"e","x","c","e","l","e","n","t","e">>,
     <<"r","i","c","o">>,
     <<"s","a","b","r","o","s","o">>,
     <<"r","e","c","o","m","i","e","n","d","o">>,
     <<"p","e","r","f","e","c","t","o">>,
     <<"g","e","n","i","a","l">> >>

\* FOREACH palabra IN ARRAY arr LOOP IF texto_lower LIKE '%'||palabra||'%'
\* THEN score := score + 1: the counter after the first n elements.  With
\* texto NULL the LIKE is NULL and the IF does not fire.
RECURSIVE ContarPalabras(_, _, _)
ContarPalabras(texto_lower, arr, n) ==
  IF n = 0 THEN 0
  ELSE ContarPalabras(texto_lower, arr, n - 1)
       + (IF texto_lower # Null /\ LIKE(texto_lower, Rodeado(arr[n]))
          THEN 1 ELSE 0)

\* Mutant: the first comparison without the "+ 1".
analizar_sentimiento_sin_margen(texto) ==
  LET texto_lower == IF texto = Null THEN Null ELSE LOWER(texto)
      score_neg == ContarPalabras(texto_lower, palabras_negativas,
                                  Len(palabras_negativas))
      score_pos == ContarPalabras(texto_lower, palabras_positivas,
                                  Len(palabras_positivas))
  IN  IF score_neg > score_pos
      THEN [sentimiento |-> "muy_negativo", score |-> -80]
      ELSE IF score_pos > score_neg
      THEN [sentimiento |-> "positivo", score |-> 60]
      ELSE [sentimiento |-> "neutral", score |-> 0]

\* Mutant: the keywords are searched in the text as written.
analizar_sentimiento_sin_lower(texto) ==
  LET texto_lower == texto
      score_neg == ContarPalabras(texto_lower, palabras_negativas,
                                  Len(palabras_negativas))
      score_pos == ContarPalabras(texto_lower, palabras_positivas,
                                  Len(palabras_positivas))
  IN  IF score_neg > score_pos + 1
      THEN [sentimiento |-> "muy_negativo", score |-> -80]
      ELSE IF score_neg > score_pos
      THEN [sentimiento |-> "negativo", score |-> -40]
      ELSE IF score_pos > score_neg
      THEN [sentimiento |-> "positivo", score |-> 60]
      ELSE [sentimiento |-> "neutral", score |-> 0]

analizar_sentimiento_basico(texto) ==
  LET texto_lower == IF texto = Null THEN Null ELSE LOWER(texto)
      score_neg == ContarPalabras(texto_lower, palabras_negativas,
                                  Len(palabras_negativas))
      score_pos == ContarPalabras(texto_lower, palabras_positivas,
                                  Len(palabras_positivas))
  IN  IF score_neg > score_pos + 1
      THEN [sentimiento |-> "muy_negativo", score |-> -80]
      ELSE IF score_neg > score_pos
      THEN [sentimiento |-> "negativo", score |-> -40]
      ELSE IF score_pos > score_neg
      THEN [sentimiento |-> "positivo", score |-> 60]
      ELSE [sentimiento |-> "neutral", score |-> 0]

(***************************************************************************)
(* Complaint texts: up to MaxPalabras words separated by one space.        *)
(***************************************************************************)
Vocabulario ==
  << <<"m","a","l","o","s">>,
     <<"H","O","R","R","I","B","L","E">>,
     <<"a","s","q","u","e","r","o","s","o">>,
     <<"P","é","s","i","m","o">>,
     <<"b","u","e","n","o">>,
     <<"R","i","c","o">>,
     <<"s","u","c","i","o">>,
     <<"p","o","l","l","o">> >>

RECURSIVE Unir(_)
Unir(ws) ==
  IF ws = <<>> THEN <<>>
  ELSE IF Len(ws) = 1 THEN Vocabulario[ws[1]]
  ELSE Vocabulario[ws[1]] \o <<" ">> \o Unir(Tail(ws))

Textos ==
  { Unir(ws) : ws \in UNION { [1..n -> DOMAIN Vocabulario] : n \in 0..MaxPalabras } }

(***************************************************************************)
(* AnalizadorQuejas.normalizarDatos and its helpers.  A raw submission is  *)
(* a record of the alias keys the code reads; a key the submission does    *)
(* not carry is Undefined.  Descripcion_ and descripcion_ stand for the    *)
(* accented keys "Descripción" and "descripción".                          *)
(***************************************************************************)
LargoMaximo == 1000

SinDescripcion ==
  <<"S","i","n"," ","d","e","s","c","r","i","p","c","i","ó","n">>

\* Mutant: an empty result is returned as null, like a missing one.
limpiarTexto_vacio_nulo(texto) ==
  IF Falsy(texto) \/ trim(toString(texto)) = <<>> THEN Null
  ELSE substring0(trim(toString(texto)), LargoMaximo)

limpiarTexto(texto) ==
  IF Falsy(texto) THEN Null
  ELSE substring0(trim(toString(texto)), LargoMaximo)

Digitos == {"0","1","2","3","4","5","6","7","8","9"}

\* telefono.toString().replace(/\D/g, '')
soloNumeros(s) == SelectSeq(s, LAMBDA c : c \in Digitos)

\* The outcome of a call that throws a TypeError.
TypeError == <<"(TypeError)">>

\* telefono.includes is read before telefono.toString(): a value that is
\* not a string and not falsy has no includes method, and the call throws.
limpiarTelefono(telefono) ==
  IF Falsy(telefono) \/ telefono = <<"e","d","n","a">> THEN Null
  ELSE IF ~EsCadena(telefono) THEN TypeError
  ELSE IF includes(telefono, <<"u","r","l">>) THEN Null
  ELSE LET n == soloNumeros(toString(telefono))
       IN  IF Len(n) = 10 THEN n
           ELSE IF Len(n) = 12 /\ SubSeq(n, 1, 2) = <<"5","2">>
           THEN SubSeq(n, 3, 12)
           ELSE Null

normalizarDatos(datos) ==
  [nombre |-> limpiarTexto(O(datos.nombre, datos.Nombre)),
   telefono |-> limpiarTelefono(O(datos.telefono, datos.Telefono)),
   descripcion |->
     limpiarTexto(O(O(O(datos.descripcion, datos.Descripcion_),
                      datos.descripcion_), SinDescripcion)),
   sucursal |-> limpiarTexto(O(datos.sucursal, datos.Sucursal))]

\* normalizarDatos throws when the evaluation of a field throws, and then
\* returns no record.
normalizarDatosLanza(datos) == normalizarDatos(datos).telefono = TypeError

\* A submission with none of the keys.
DatosVacios ==
  [nombre |-> Undefined, Nombre |-> Undefined,
   telefono |-> Undefined, Telefono |-> Undefined,
   descripcion |-> Undefined, Descripcion_ |-> Undefined,
   descripcion_ |-> Undefined,
   sucursal |-> Undefined, Sucursal |-> Undefined]

(***************************************************************************)
(* The category catalog (categorias_quejas, subcategorias_quejas) and the  *)
(* cache cargarCaches builds from it.                                      *)
(***************************************************************************)
\* categorias_quejas: rows of the seed, with their SERIAL ids.
categorias_quejas ==
  { [id |-> 1, nombre |-> "Calidad del Producto"],
    [id |-> 3, nombre |-> "Higiene y Limpieza"],
    [id |-> 10, nombre |-> "Satisfacción General"] }

\* subcategorias_quejas: rows of the seed, with their SERIAL ids.
subcategorias_quejas ==
  { [id |-> 3, nombre |-> "Sabor Desagradable", categoria_id |-> 1,
     keywords |-> << <<"m","a","l","o">>, <<"s","a","b","o","r">>,
                     <<"f","e","o">>, <<"h","o","r","r","i","b","l","e">>,
                     <<"r","a","r","o">> >>],
    [id |-> 6, nombre |-> "Restaurante Sucio", categoria_id |-> 3,
     keywords |-> << <<"s","u","c","i","o">>, <<"c","o","c","h","i","n","o">>,
                     <<"l","i","m","p","i","e","z","a">>,
                     <<"a","s","q","u","e","r","o","s","o">> >>],
    [id |-> 7, nombre |-> "Baños Sucios", categoria_id |-> 3,
     keywords |-> << <<"b","a","ñ","o">>,
                     <<"s","a","n","i","t","a","r","i","o">>,
                     <<"w","c">>, <<"s","u","c","i","o">> >>] }

\* A NULL array column.
ArregloNulo == << Null >>

\* SELECT c.id, c.nombre, sc.nombre as subcategoria, sc.keywords
\* FROM categorias_quejas c LEFT JOIN subcategorias_quejas sc
\*   ON c.id = sc.categoria_id: the rows, as a set.
FilasCategorias ==
  { [id |-> c.id, nombre |-> c.nombre, subcategoria |-> sc.nombre,
     keywords |-> sc.keywords] :
      <<c, sc>> \in { x \in categorias_quejas \X subcategorias_quejas :
                        x[1].id = x[2].categoria_id } }
  \cup
  { [id |-> c.id, nombre |-> c.nombre, subcategoria |-> NombreNulo,
     keywords |-> ArregloNulo] :
      c \in { x \in categorias_quejas :
                \A sc \in subcategorias_quejas : sc.categoria_id # x.id } }

\* The sequences that enumerate the set S once each.
Permutaciones(S) ==
  { f \in [1..Cardinality(S) -> S] :
      \A i, j \in 1..Cardinality(S) : i # j => f[i] # f[j] }

\* The query has no ORDER BY: the rows arrive in an order the database
\* chooses.
OrdenesDeFilas == Permutaciones(FilasCategorias)

\* categorias.rows.forEach(row => ...) on a Map kept in insertion order,
\* here a sequence of entries: the cache after the first n rows.
RECURSIVE LlenarCache(_, _)
LlenarCache(rows, n) ==
  IF n = 0 THEN <<>>
  ELSE
    LET antes == LlenarCache(rows, n - 1)
        row == rows[n]
        con == IF \E i \in DOMAIN antes : antes[i].id = row.id
               THEN antes
               ELSE Append(antes, [id |-> row.id, nombre |-> row.nombre,
                                   subcategorias |-> <<>>])
        k == CHOOSE i \in DOMAIN con : con[i].id = row.id
    IN  IF row.subcategoria # NombreNulo /\ row.subcategoria # ""
        THEN [con EXCEPT ![k].subcategorias =
                Append(@, [nombre |-> row.subcategoria,
                           keywords |-> IF row.keywords = ArregloNulo
                                        THEN <<>> ELSE row.keywords])]
        ELSE con

CacheDe(rows) == LlenarCache(rows, Len(rows))

\* let categoriasCache = new Map(): the cache before any load.
CacheVacio == <<>>

\* Every content of categoriasCache: never loaded, or loaded from the rows
\* in one of their orders.
CachesPosibles == { CacheVacio } \cup { CacheDe(f) : f \in OrdenesDeFilas }

(***************************************************************************)
(* AnalizadorQuejas.categorizarQueja.                                      *)
(***************************************************************************)
\* The id of an object that was stored without one.
IdIndefinido == -1
IdNulo == 0

\* subcategoria.id: the cache entries hold only nombre and keywords.
IdDe(obj) == IF "id" \in DOMAIN obj THEN obj.id ELSE IdIndefinido

CategoriaPorDefecto ==
  [error |-> FALSE,
   categoria_id |-> 10,
   categoria_nombre |-> "Satisfacción General",
   subcategoria_id |-> IdNulo,
   subcategoria_nombre |-> NombreNulo,
   keyword_encontrada |-> Null]

\* The positions <<category, subcategory, keyword>> of the cache in the
\* order the three nested loops visit them.
Posiciones(cache) ==
  UNION { UNION { { <<i, j, k>> :
                      k \in DOMAIN cache[i].subcategorias[j].keywords } :
                  j \in DOMAIN cache[i].subcategorias } :
          i \in DOMAIN cache }

Antes(a, b) ==
  \/ a[1] < b[1]
  \/ a[1] = b[1] /\ a[2] < b[2]
  \/ a[1] = b[1] /\ a[2] = b[2] /\ a[3] < b[3]

Coincide(cache, descripcionLower, pos) ==
  includes(descripcionLower,
           LOWER(cache[pos[1]].subcategorias[pos[2]].keywords[pos[3]]))

ResultadoEn(cache, pos) ==
  [error |-> FALSE,
   categoria_id |-> cache[pos[1]].id,
   categoria_nombre |-> cache[pos[1]].nombre,
   subcategoria_id |-> IdDe(cache[pos[1]].subcategorias[pos[2]]),
   subcategoria_nombre |-> cache[pos[1]].subcategorias[pos[2]].nombre,
   keyword_encontrada |-> cache[pos[1]].subcategorias[pos[2]].keywords[pos[3]]]

\* A TypeError thrown by the method.
ErrorDeTipo ==
  [error |-> TRUE,
   categoria_id |-> IdNulo,
   categoria_nombre |-> NombreNulo,
   subcategoria_id |-> IdNulo,
   subcategoria_nombre |-> NombreNulo,
   keyword_encontrada |-> Null]

\* Mutant: no match falls back to the first category of the catalog.
categorizarQueja_otro_defecto(cache, descripcion) ==
  IF descripcion = Null \/ descripcion = Undefined THEN ErrorDeTipo
  ELSE
    LET descripcionLower == LOWER(descripcion)
        hits == { pos \in Posiciones(cache) :
                    Coincide(cache, descripcionLower, pos) }
    IN  IF hits = {}
        THEN [CategoriaPorDefecto EXCEPT
                !.categoria_id = 1,
                !.categoria_nombre = "Calidad del Producto"]
        ELSE ResultadoEn(cache,
               CHOOSE pos \in hits : \A q \in hits : q = pos \/ Antes(pos, q))

categorizarQueja(cache, descripcion) ==
  IF descripcion = Null \/ descripcion = Undefined THEN ErrorDeTipo
  ELSE
    LET descripcionLower == LOWER(descripcion)
        hits == { pos \in Posiciones(cache) :
                    Coincide(cache, descripcionLower, pos) }
    IN  IF hits = {}
        THEN CategoriaPorDefecto
        ELSE ResultadoEn(cache,
               CHOOSE pos \in hits : \A q \in hits : q = pos \/ Antes(pos, q))

(***************************************************************************)
(* The branch catalog (estados, municipios, sucursales) and the plpgsql    *)
(* function buscar_sucursales_inteligente.                                 *)
(***************************************************************************)
estados ==
  { [id |-> 1, nombre |-> <<"N","u","e","v","o"," ","L","e","ó","n">>,
     codigo |-> <<"N","L">>],
    [id |-> 2, nombre |-> <<"T","a","m","a","u","l","i","p","a","s">>,
     codigo |-> <<"T","M">>] }

municipios ==
  { [id |-> 1, nombre |-> <<"M","o","n","t","e","r","r","e","y">>,
     estado_id |-> 1],
    [id |-> 3, nombre |-> <<"A","p","o","d","a","c","a">>, estado_id |-> 1],
    [id |-> 10, nombre |-> <<"R","e","y","n","o","s","a">>, estado_id |-> 2] }

\* Rows the sucursales table may hold; a catalog is a subset of them.
\* external_key IdNulo is NULL.
SucursalesPosibles ==
  { [id |-> 1, external_key |-> 1,
     nombre |-> <<"M","o","n","t","e","r","r","e","y">>,
     municipio_id |-> 1, activa |-> TRUE],
    [id |-> 2, external_key |-> 10,
     nombre |-> <<"C","e","n","t","r","o">>,
     municipio_id |-> 1, activa |-> TRUE],
    [id |-> 3, external_key |-> 65,
     nombre |-> <<"C","e","n","t","r","o">>,
     municipio_id |-> 3, activa |-> TRUE],
    [id |-> 4, external_key |-> 73,
     nombre |-> <<"A","p","o","d","a","c","a">>,
     municipio_id |-> 1, activa |-> FALSE],
    [id |-> 5, external_key |-> IdNulo,
     nombre |-> <<"1","0">>,
     municipio_id |-> 10, activa |-> TRUE],
    [id |-> 6, external_key |-> 23,
     nombre |-> <<"A","p","o","d","a","c","a"," ","S","u","r">>,
     municipio_id |-> 1, activa |-> TRUE],
    [id |-> 7, external_key |-> 42,
     nombre |-> <<"M","o","n","t","e","r","r","e","y"," ","N","o","r","t","e">>,
     municipio_id |-> 1, activa |-> TRUE] }

\* external_key::TEXT
CifrasDecimales == <<"0","1","2","3","4","5","6","7","8","9">>

RECURSIVE EnteroATexto(_)
EnteroATexto(n) ==
  IF n < 10 THEN << CifrasDecimales[n + 1] >>
  ELSE Append(EnteroATexto(n \div 10), CifrasDecimales[(n % 10) + 1])

\* FROM sucursales s JOIN municipios m ON s.municipio_id = m.id
\*                   JOIN estados e ON m.estado_id = e.id
SucursalesUnidas(sucursales) ==
  { [s |-> x[1], m |-> x[2], e |-> x[3]] :
      x \in { y \in sucursales \X municipios \X estados :
                y[1].municipio_id = y[2].id /\ y[2].estado_id = y[3].id } }

\* Mutant: the name is compared as written, without LOWER.
CondicionNivel_sin_lower(n, f, busqueda) ==
  CASE n = 1 -> /\ f.s.external_key # IdNulo
                /\ EnteroATexto(f.s.external_key) = busqueda
    [] n = 2 -> f.s.nombre = busqueda
    [] n = 3 -> LOWER(f.m.nombre) = LOWER(busqueda)
    [] n = 4 -> LIKE(LOWER(f.s.nombre), LOWER(Rodeado(busqueda)))
    [] n = 5 -> LIKE(LOWER(f.m.nombre), LOWER(Rodeado(busqueda)))
    [] n = 6 -> LOWER(f.e.codigo) = LOWER(busqueda)

\* The six WHEN conditions of the two CASE expressions, in their order, on
\* a joined row f and the search text.
CondicionNivel(n, f, busqueda) ==
  CASE n = 1 -> /\ f.s.external_key # IdNulo
                /\ EnteroATexto(f.s.external_key) = busqueda
    [] n = 2 -> LOWER(f.s.nombre) = LOWER(busqueda)
    [] n = 3 -> LOWER(f.m.nombre) = LOWER(busqueda)
    [] n = 4 -> LIKE(LOWER(f.s.nombre), LOWER(Rodeado(busqueda)))
    [] n = 5 -> LIKE(LOWER(f.m.nombre), LOWER(Rodeado(busqueda)))
    [] n = 6 -> LOWER(f.e.codigo) = LOWER(busqueda)

ConfianzaNivel == <<100, 95, 85, 75, 65, 60>>

RazonNivel ==
  <<"ID exacto", "Nombre exacto", "Ciudad exacta", "Nombre parcial",
    "Ciudad parcial", "Estado">>

\* CASE WHEN ... THEN ... ELSE 0.30 / 'Coincidencia baja' END: the first
\* condition that holds decides.
NivelDe(f, busqueda) ==
  IF \E n \in 1..6 : CondicionNivel(n, f, busqueda)
  THEN CHOOSE n \in 1..6 :
         /\ CondicionNivel(n, f, busqueda)
         /\ \A k \in 1..(n - 1) : ~CondicionNivel(k, f, busqueda)
  ELSE 7

confianza(f, busqueda) ==
  IF NivelDe(f, busqueda) = 7 THEN 30
  ELSE ConfianzaNivel[NivelDe(f, busqueda)]

razon(f, busqueda) ==
  IF NivelDe(f, busqueda) = 7 THEN "Coincidencia baja"
  ELSE RazonNivel[NivelDe(f, busqueda)]

\* Mutant: every active branch qualifies.
Califica_sin_filtro(f, busqueda) == f.s.activa = TRUE

\* WHERE s.activa = true AND (... OR ... OR ... OR ...)
Califica(f, busqueda) ==
  /\ f.s.activa = TRUE
  /\ \/ CondicionNivel(1, f, busqueda)
     \/ CondicionNivel(4, f, busqueda)
     \/ CondicionNivel(5, f, busqueda)
     \/ CondicionNivel(6, f, busqueda)

\* The order of s.nombre under ORDER BY: character by character.
OrdenCaracteres ==
  <<" ","%","0","1","2","3","4","5","6","7","8","9",
    "A","B","C","D","E","F","G","H","I","J","K","L","M","N","O","P","Q","R",
    "S","T","U","V","W","X","Y","Z","_",
    "a","b","c","d","e","f","g","h","i","j","k","l","m","n","o","p","q","r",
    "s","t","u","v","w","x","y","z","á","é","í","ñ","ó","ú">>

Peso(c) == CHOOSE i \in DOMAIN OrdenCaracteres : OrdenCaracteres[i] = c

RECURSIVE MenorTexto(_, _)
MenorTexto(a, b) ==
  IF b = <<>> THEN FALSE
  ELSE IF a = <<>> THEN TRUE
  ELSE IF Head(a) = Head(b) THEN MenorTexto(Tail(a), Tail(b))
  ELSE Peso(Head(a)) < Peso(Head(b))

FilaResultado(f, busqueda) ==
  [sucursal_id |-> f.s.id,
   nombre |-> f.s.nombre,
   municipio |-> f.m.nombre,
   estado |-> f.e.nombre,
   confianza |-> confianza(f, busqueda),
   razon |-> razon(f, busqueda)]

\* Mutant: ORDER BY confianza, ascending.
EnOrden_ascendente(a, b) ==
  \/ a.confianza < b.confianza
  \/ a.confianza = b.confianza /\ ~MenorTexto(b.nombre, a.nombre)

\* ORDER BY confianza DESC, s.nombre: row a may come before row b.
EnOrden(a, b) ==
  \/ a.confianza > b.confianza
  \/ a.confianza = b.confianza /\ ~MenorTexto(b.nombre, a.nombre)

\* The results the function may return: the qualifying rows in an order
\* ORDER BY allows (rows equal in both keys in either order), cut by LIMIT.
buscar_sucursales_inteligente(sucursales, busqueda, limite) ==
  LET filas == { FilaResultado(f, busqueda) :
                   f \in { g \in SucursalesUnidas(sucursales) :
                             Califica(g, busqueda) } }
      n == Cardinality(filas)
  IN  { SubSeq(o, 1, IF n < limite THEN n ELSE limite) :
          o \in { p \in Permutaciones(filas) :
                    \A i, j \in 1..n : i < j => EnOrden(p[i], p[j]) } }

(***************************************************************************)
(* AnalizadorQuejas.buscarSucursalInteligente.                             *)
(***************************************************************************)
LimiteCandidatas == 3

SinEspecificar ==
  <<"S","i","n"," ","e","s","p","e","c","i","f","i","c","a","r">>

NoEncontrada == <<"N","o"," ","e","n","c","o","n","t","r","a","d","a">>

\* The method reaches client.query only past the guard on the hint.
ConsultaSucursales(ubicacionOriginal) == ~Falsy(ubicacionOriginal)

\* Mutant: no guard on the hint.
buscarSucursalInteligente_sin_guardia(ubicacionOriginal, rows) ==
  IF Len(rows) = 0
  THEN [sucursal_id |-> IdNulo, sucursal_nombre |-> NoEncontrada,
        confianza |-> 0, candidatas |-> <<>>]
  ELSE [sucursal_id |-> rows[1].sucursal_id,
        sucursal_nombre |-> rows[1].nombre,
        confianza |-> rows[1].confianza,
        candidatas |-> [i \in 1..Len(rows) |-> rows[i].sucursal_id]]

\* Mutant: the branch returned is the last candidate, not the first.
buscarSucursalInteligente_ultima(ubicacionOriginal, rows) ==
  IF Falsy(ubicacionOriginal)
  THEN [sucursal_id |-> IdNulo, sucursal_nombre |-> SinEspecificar,
        confianza |-> 0, candidatas |-> <<>>]
  ELSE IF Len(rows) = 0
  THEN [sucursal_id |-> IdNulo, sucursal_nombre |-> NoEncontrada,
        confianza |-> 0, candidatas |-> <<>>]
  ELSE [sucursal_id |-> rows[Len(rows)].sucursal_id,
        sucursal_nombre |-> rows[Len(rows)].nombre,
        confianza |-> rows[Len(rows)].confianza,
        candidatas |-> [i \in 1..Len(rows) |-> rows[i].sucursal_id]]

\* The value returned, rows being the result of the query when it is made.
buscarSucursalInteligente(ubicacionOriginal, rows) ==
  IF Falsy(ubicacionOriginal)
  THEN [sucursal_id |-> IdNulo, sucursal_nombre |-> SinEspecificar,
        confianza |-> 0, candidatas |-> <<>>]
  ELSE IF Len(rows) = 0
  THEN [sucursal_id |-> IdNulo, sucursal_nombre |-> NoEncontrada,
        confianza |-> 0, candidatas |-> <<>>]
  ELSE [sucursal_id |-> rows[1].sucursal_id,
        sucursal_nombre |-> rows[1].nombre,
        confianza |-> rows[1].confianza,
        candidatas |-> [i \in 1..Len(rows) |-> rows[i].sucursal_id]]

(***************************************************************************)
(* The two servers.  The IA server (server-ai.js) loads its caches and     *)
(* then listens; its webhook runs procesarQuejaConIA inside a transaction. *)
(* The basic server (part_000) listens at once; its webhook runs each      *)
(* statement on its own.  Handlers advance one awaited call at a time and  *)
(* interleave at those points.                                             *)
(***************************************************************************)
Solicitudes == 1..MaxSolicitudes

\* The sucursales table of the database the servers run on.
TablaSucursales == SucursalesPosibles

\* The bodies submitted: an empty one; a text with two negative words, the
\* telephone of a known customer and a hint; a text with one positive word,
\* a telephone written with country code and a hint that matches nothing.
Entradas ==
  { DatosVacios,
    [DatosVacios EXCEPT
       !.descripcion = <<"H","O","R","R","I","B","L","E"," ",
                         "a","s","q","u","e","r","o","s","o">>,
       !.telefono = <<"5","5","1","2","3","4","5","6","7","8">>,
       !.sucursal = <<"c","e","n","t","r","o">>],
    [DatosVacios EXCEPT
       !.descripcion = <<"p","o","l","l","o"," ","b","u","e","n","o">>,
       !.telefono = <<"+","5","2"," ","(","8","1",")"," ",
                      "8","7","6","5","-","4","3","2","1">>,
       !.sucursal = <<"z","z","z">>] }

\* The rows the category query returns in the order of their ids, and in
\* the opposite order.
OrdenPorId ==
  CHOOSE f \in OrdenesDeFilas :
    \A i, j \in DOMAIN f :
      i < j => \/ f[i].id < f[j].id
               \/ f[i].id = f[j].id /\ f[i].subcategoria = "Restaurante Sucio"

OrdenesDeCarga ==
  { OrdenPorId, [i \in DOMAIN OrdenPorId |-> OrdenPorId[Len(OrdenPorId) + 1 - i]] }

\* The calls of cargarCaches: by the constructor of the analizador, and by
\* iniciarServidor, which awaits it before listening.
Cargas == {"constructor", "iniciarServidor"}

\* The database before the run: one customer with one complaint.
ClienteConocido ==
  [id |-> 1, telefono |-> <<"5","5","1","2","3","4","5","6","7","8">>,
   segmento_cliente |-> "nuevo", total_quejas |-> 1, por |-> 0,
   stat_por |-> 0]

QuejaConocida ==
  [id |-> 1, cliente_id |-> 1, sucursal_id |-> IdNulo, categoria_id |-> 10,
   subcategoria_id |-> IdNulo, sentimiento |-> "neutral",
   score_sentimiento |-> 0, urgencia |-> 1, palabras_clave |-> <<>>,
   confianza_mapeo |-> 0, sucursales_candidatas |-> <<>>, por |-> 0]

SinRespuesta ==
  [status |-> 0, success |-> FALSE, queja_id |-> IdNulo, error |-> ""]

\* res.json({ success: true, ... queja_id ... })
RespuestaDeExito(quejaId) ==
  [status |-> 200, success |-> TRUE, queja_id |-> quejaId, error |-> ""]

\* Mutant: the catch answers as if the submission had been processed.
RespuestaDeError_silenciosa(mensaje) ==
  [status |-> 200, success |-> TRUE, queja_id |-> IdNulo, error |-> ""]

\* res.status(500).json({ success: false, ... error: error.message })
RespuestaDeError(mensaje) ==
  [status |-> 500, success |-> FALSE, queja_id |-> IdNulo, error |-> mensaje]

SolicitudNueva ==
  [pc |-> "nueva", datos |-> DatosVacios,
   sentimiento |-> [sentimiento |-> "", score |-> 0],
   categoria |-> CategoriaPorDefecto,
   busqueda |-> buscarSucursalInteligente(Undefined, <<>>),
   urgencia |-> 0, clienteId |-> IdNulo, quejaId |-> IdNulo, conteo |-> 0,
   fallo |-> "ninguno", respuesta |-> SinRespuesta, emitidas |-> <<>>]

SinTransaccion ==
  [estado |-> "ninguna", clientes |-> {}, quejas |-> {}, insights_ia |-> {},
   totales |-> {}]

\* AnalizadorQuejas.calcularUrgencia: categoria is the result of
\* categorizarQueja, which has no descripcion.
palabrasUrgentes ==
  { <<"i","n","t","o","x","i","c","a","c","i","ó","n">>,
    <<"e","n","f","e","r","m","o">>, <<"v","ó","m","i","t","o">>,
    <<"a","m","b","u","l","a","n","c","i","a">>,
    <<"h","o","s","p","i","t","a","l">> }

\* calcularUrgencia without its base of 1.
calcularUrgencia_sin_base(sentimiento, categoria) ==
  (IF sentimiento.sentimiento = "muy_negativo" THEN 2
   ELSE IF sentimiento.sentimiento = "negativo" THEN 1 ELSE 0)
  + (IF categoria.categoria_nombre = "Higiene y Limpieza" THEN 2
     ELSE IF categoria.categoria_nombre = "Calidad del Producto" THEN 1
     ELSE IF categoria.categoria_nombre = "Personal" THEN 1 ELSE 0)

\* calcularUrgencia without the bonus of the category 'Personal'.
calcularUrgencia_sin_personal(sentimiento, categoria) ==
  LET suma ==
        1 + (IF sentimiento.sentimiento = "muy_negativo" THEN 2
             ELSE IF sentimiento.sentimiento = "negativo" THEN 1 ELSE 0)
          + (IF categoria.categoria_nombre = "Higiene y Limpieza" THEN 2
             ELSE IF categoria.categoria_nombre = "Calidad del Producto"
             THEN 1 ELSE 0)
  IN  IF suma < 5 THEN suma ELSE 5

calcularUrgencia(sentimiento, categoria) ==
  LET porSentimiento ==
        IF sentimiento.sentimiento = "muy_negativo" THEN 2
        ELSE IF sentimiento.sentimiento = "negativo" THEN 1 ELSE 0
      porCategoria ==
        IF categoria.categoria_nombre = "Higiene y Limpieza" THEN 2
        ELSE IF categoria.categoria_nombre = "Calidad del Producto" THEN 1
        ELSE IF categoria.categoria_nombre = "Personal" THEN 1 ELSE 0
      descripcionLower ==
        IF "descripcion" \in DOMAIN categoria
        THEN LOWER(categoria.descripcion) ELSE <<>>
      urgencia ==
        IF \E palabra \in palabrasUrgentes : includes(descripcionLower, palabra)
        THEN 5 ELSE 1 + porSentimiento + porCategoria
  IN  IF urgencia < 5 THEN urgencia ELSE 5

(***************************************************************************)
(* extraerPalabrasClave.                                                   *)
(***************************************************************************)
palabrasComunes ==
  { <<"e","l">>, <<"l","a">>, <<"d","e">>, <<"q","u","e">>, <<"y">>,
    <<"a">>, <<"e","n">>, <<"u","n">>, <<"e","s">>, <<"s","e">>,
    <<"n","o">>, <<"t","e">>, <<"l","o">>, <<"l","e">>, <<"d","a">>,
    <<"s","u">>, <<"p","o","r">>, <<"s","o","n">>, <<"c","o","n">>,
    <<"p","a","r","a">>, <<"a","l">>, <<"d","e","l">>, <<"e","s","t","á">>,
    <<"m","u","y">>, <<"m","e">>, <<"p","e","r","o">>, <<"t","o","d","o">>,
    <<"m","i">>, <<"f","u","e">>, <<"e","r","a">> }

LetrasAscii ==
  { "a","b","c","d","e","f","g","h","i","j","k","l","m","n","o","p","q","r",
    "s","t","u","v","w","x","y","z",
    "A","B","C","D","E","F","G","H","I","J","K","L","M","N","O","P","Q","R",
    "S","T","U","V","W","X","Y","Z" }

Cifras == { "0","1","2","3","4","5","6","7","8","9" }

\* \w of a JavaScript regular expression without the u flag: ASCII letters,
\* digits and the underscore; an accented letter is not a word character.
EsDePalabra(c) == c \in LetrasAscii \cup Cifras \cup {"_"}

\* .replace(/[^\w\s]/g, ' ')
SinSimbolos(s) ==
  [i \in 1..Len(s) |->
     IF EsDePalabra(s[i]) \/ EsEspacio(s[i]) THEN s[i] ELSE " "]

\* .split(/\s+/): the pieces between the runs of whitespace, the empty pieces
\* at the ends included.
RECURSIVE split(_)
split(s) ==
  IF \A i \in 1..Len(s) : ~EsEspacio(s[i]) THEN <<s>>
  ELSE LET i == CHOOSE k \in 1..Len(s) :
                  EsEspacio(s[k]) /\ \A j \in 1..(k - 1) : ~EsEspacio(s[j])
       IN  <<SubSeq(s, 1, i - 1)>> \o split(trimStart(SubSeq(s, i, Len(s))))

TodasEn(s, conjunto) == \A i \in 1..Len(s) : s[i] \in conjunto

\* !isNaN(palabra) for a piece of lowercase word characters: Number(palabra)
\* reads decimal digits, digits with an exponent, and the 0x, 0o and 0b
\* literals; every other piece is NaN.
EsNumero(p) ==
  \/ TodasEn(p, Cifras)
  \/ \E i \in 2..(Len(p) - 1) :
       /\ p[i] = "e"
       /\ TodasEn(SubSeq(p, 1, i - 1), Cifras)
       /\ TodasEn(SubSeq(p, i + 1, Len(p)), Cifras)
  \/ /\ Len(p) > 2
     /\ p[1] = "0"
     /\ \/ p[2] = "x" /\ TodasEn(SubSeq(p, 3, Len(p)),
                                 Cifras \cup {"a","b","c","d","e","f"})
        \/ p[2] = "o" /\ TodasEn(SubSeq(p, 3, Len(p)),
                                 {"0","1","2","3","4","5","6","7"})
        \/ p[2] = "b" /\ TodasEn(SubSeq(p, 3, Len(p)), {"0","1"})

\* The filter of the pieces.
PasaFiltro(palabra) ==
  /\ Len(palabra) > 3
  /\ palabra \notin palabrasComunes
  /\ ~EsNumero(palabra)

palabrasDe(descripcion) ==
  SelectSeq(split(SinSimbolos(LOWER(descripcion))), PasaFiltro)

\* The lowercase names frecuencia = {} inherits from Object.prototype.
Constructor == <<"c","o","n","s","t","r","u","c","t","o","r">>
Proto == <<"_","_","p","r","o","t","o","_","_">>

\* frecuencia[palabra] = (frecuencia[palabra] || 0) + 1 over the pieces, as
\* the entries of the object in insertion order.  An entry holds a number
\* (numero) or a string: "constructor" first reads the inherited function
\* Object, and function + 1 is a string, as is every later string + 1.
\* Assigning "__proto__" a string creates no property.
RECURSIVE Contar(_, _)
Contar(frecuencia, palabras) ==
  IF palabras = <<>> THEN frecuencia
  ELSE LET palabra == Head(palabras)
           propia == \E i \in DOMAIN frecuencia :
                       frecuencia[i].palabra = palabra
           sig ==
             IF palabra = Proto THEN frecuencia
             ELSE IF propia
             THEN [i \in DOMAIN frecuencia |->
                     IF frecuencia[i].palabra = palabra
                     THEN [frecuencia[i] EXCEPT !.valor = @ + 1]
                     ELSE frecuencia[i]]
             ELSE Append(frecuencia,
                         [palabra |-> palabra, valor |-> 1,
                          numero |-> palabra # Constructor])
       IN  Contar(sig, Tail(palabras))

\* ([,a], [,b]) => b - a, with NaN read as +0 by Array.prototype.sort.
comparefn(x, y) == IF x.numero /\ y.numero THEN y.valor - x.valor ELSE 0

Reverse(a) == [i \in 1..Len(a) |-> a[Len(a) + 1 - i]]

\* Array.prototype.sort of V8 (Node 11 and later) on an array shorter than
\* 64: the first run is found and made ascending, then every later element
\* is placed by binary insertion.
RECURSIVE CountRun(_, _, _)
CountRun(a, runLength, isDescending) ==
  IF /\ runLength < Len(a)
     /\ (comparefn(a[runLength + 1], a[runLength]) < 0) = isDescending
  THEN CountRun(a, runLength + 1, isDescending)
  ELSE runLength

RECURSIVE BinarySearch(_, _, _, _)
BinarySearch(a, pivot, left, right) ==
  IF left < right
  THEN LET mid == left + ((right - left) \div 2)
       IN  IF comparefn(pivot, a[mid + 1]) < 0
           THEN BinarySearch(a, pivot, left, mid)
           ELSE BinarySearch(a, pivot, mid + 1, right)
  ELSE left

RECURSIVE BinaryInsertionSort(_, _)
BinaryInsertionSort(a, start) ==
  IF start >= Len(a) THEN a
  ELSE LET pivot == a[start + 1]
           left == BinarySearch(a, pivot, 0, start)
       IN  BinaryInsertionSort(
             SubSeq(a, 1, left) \o <<pivot>> \o SubSeq(a, left + 1, start)
               \o SubSeq(a, start + 2, Len(a)),
             start + 1)

sort(a) ==
  IF Len(a) < 2 THEN a
  ELSE LET isDescending == comparefn(a[2], a[1]) < 0
           runLength == CountRun(a, 2, isDescending)
           run == IF isDescending THEN Reverse(SubSeq(a, 1, runLength))
                  ELSE SubSeq(a, 1, runLength)
       IN  BinaryInsertionSort(run \o SubSeq(a, runLength + 1, Len(a)),
                               runLength)

MaximoDePalabrasClave == 5

extraerPalabrasClave(descripcion) ==
  LET ordenadas == sort(Contar(<<>>, palabrasDe(descripcion)))
      cuantas == IF Len(ordenadas) < MaximoDePalabrasClave
                 THEN Len(ordenadas) ELSE MaximoDePalabrasClave
  IN  [i \in 1..cuantas |-> ordenadas[i].palabra]

\* The basic webhook's urgency: by sentiment, raised to 5 by a word of its
\* own list in the description.
palabrasUrgentesBasico ==
  { <<"h","o","r","r","i","b","l","e">>,
    <<"a","s","q","u","e","r","o","s","o">>,
    <<"i","n","t","o","x","i","c","a","c","i","ó","n">>,
    <<"e","n","f","e","r","m","o">> }

urgenciaBasica(sentimiento, descripcion) ==
  IF \E palabra \in palabrasUrgentesBasico :
       includes(LOWER(descripcion), palabra)
  THEN 5
  ELSE IF sentimiento.sentimiento = "muy_negativo" THEN 4
  ELSE IF sentimiento.sentimiento = "negativo" THEN 3 ELSE 1

\* A query parameter: node-postgres sends undefined as NULL.
Parametro(x) == IF x = Undefined THEN Null ELSE x

\* The same for a parameter that is an id.
ParametroId(x) == IF x = IdIndefinido THEN IdNulo ELSE x

\* NULL in a DECIMAL column.
DecimalNulo == -1

\* The rows of clientes with a telephone, among rows.
ClientesCon(rows, telefono) == { c \in rows : c.telefono = telefono }

\* The writes of transaction r applied to the committed tables.
ClientesTras(r) ==
  { IF \E t \in tx[r].totales : t.id = c.id
    THEN [c EXCEPT
            !.total_quejas =
               (CHOOSE t \in tx[r].totales : t.id = c.id).total_quejas,
            !.stat_por = r]
    ELSE c : c \in clientes \cup tx[r].clientes }

\* The row of clientes the transaction r wants to update is locked by the
\* uncommitted update of another transaction.
Bloqueada(r, id) ==
  \E q \in Solicitudes \ {r} :
    tx[q].estado = "abierta" /\ \E t \in tx[q].totales : t.id = id

(***************************************************************************)
(* Start of the IA server: cargarCaches.                                   *)
(***************************************************************************)
\* const client = await pool.connect(), inside the try.
cargarCachesConectar(c) ==
  /\ programa = "ia"
  /\ cargador[c] = "inicio"
  /\ \E ok \in BOOLEAN :
       IF ok
       THEN /\ cargador' = [cargador EXCEPT ![c] = "conectado"]
            /\ prestados' = prestados + 1
            /\ UNCHANGED escuchando
       ELSE /\ cargador' = [cargador EXCEPT ![c] = "fin"]
            /\ escuchando' = (escuchando \/ c = "iniciarServidor")
            /\ UNCHANGED prestados
  /\ UNCHANGED <<llamada, programa, categoriasCache, sol, tx, bd>>

\* The two queries, then clear() and forEach() without an await between
\* them, then client.release().  A query that fails leads to the catch,
\* which does not release the client.
cargarCachesConsultar(c) ==
  /\ cargador[c] = "conectado"
  /\ \E ok \in BOOLEAN :
       IF ok
       THEN /\ \E rows \in OrdenesDeCarga : categoriasCache' = CacheDe(rows)
            /\ prestados' = prestados - 1
       ELSE UNCHANGED <<categoriasCache, prestados>>
  /\ cargador' = [cargador EXCEPT ![c] = "fin"]
  /\ escuchando' = (escuchando \/ c = "iniciarServidor")
  /\ UNCHANGED <<llamada, programa, sol, tx, bd>>

(***************************************************************************)
(* POST /webhook/nueva-queja of the IA server: procesarQuejaConIA.         *)
(***************************************************************************)
\* A submission arrives and its handler starts.
Recibir(r) ==
  /\ escuchando
  /\ sol[r].pc = "nueva"
  /\ \A q \in 1..(r - 1) : sol[q].pc # "nueva"
  /\ \E d \in Entradas :
       sol' = [sol EXCEPT ![r].datos = d,
                          ![r].pc = IF programa = "ia" THEN "conectar"
                                    ELSE "b_conectar"]
  /\ UNCHANGED <<llamada, arranque, prestados, tx, bd>>

Norm(r) == normalizarDatos(sol[r].datos)

\* Mutant: the catch sends no ROLLBACK.
Sentencia_sin_rollback(paso) ==
  CASE paso = "begin" -> <<"BEGIN">>
    [] paso = "cliente_insert" -> <<"INSERT clientes">>
    [] paso = "queja_insert" -> <<"INSERT quejas">>
    [] paso = "estadisticas" -> <<"UPDATE clientes">>
    [] paso = "insight" -> <<"INSERT insights_ia">>
    [] paso = "commit" -> <<"COMMIT">>
    [] OTHER -> <<>>

\* The statement a step of procesarQuejaConIA sends on its client, for the
\* steps that open or close the transaction or write a table.
Sentencia(paso) ==
  CASE paso = "begin" -> <<"BEGIN">>
    [] paso = "cliente_insert" -> <<"INSERT clientes">>
    [] paso = "queja_insert" -> <<"INSERT quejas">>
    [] paso = "estadisticas" -> <<"UPDATE clientes">>
    [] paso = "insight" -> <<"INSERT insights_ia">>
    [] paso = "commit" -> <<"COMMIT">>
    [] paso = "rollback" -> <<"ROLLBACK">>
    [] OTHER -> <<>>

\* A step of procesarQuejaConIA throws on its statement: control goes to
\* the catch.
Falla(r, paso) ==
  sol' = [sol EXCEPT ![r].fallo = paso, ![r].pc = "rollback",
                     ![r].emitidas = @ \o Sentencia(paso)]

\* const client = await pool.connect(), before the try: a failure goes to
\* the catch of the webhook.
Conectar(r) ==
  /\ sol[r].pc = "conectar"
  /\ \E ok \in BOOLEAN :
       IF ok
       THEN /\ sol' = [sol EXCEPT ![r].pc = "begin"]
            /\ prestados' = prestados + 1
       ELSE /\ sol' = [sol EXCEPT ![r].pc = "fin",
                                  ![r].fallo = "conectar",
                                  ![r].respuesta = RespuestaDeError("conectar")]
            /\ UNCHANGED prestados
  /\ UNCHANGED <<llamada, arranque, tx, bd>>

\* await client.query('BEGIN'), then normalizarDatos, which runs before the
\* next await.
Begin(r) ==
  /\ sol[r].pc = "begin"
  /\ \E ok \in BOOLEAN :
       IF ok
       THEN /\ sol' = IF normalizarDatosLanza(sol[r].datos)
                      THEN [sol EXCEPT ![r].fallo = "normalizar",
                                       ![r].pc = "rollback",
                                       ![r].emitidas = Sentencia("begin")]
                      ELSE [sol EXCEPT ![r].pc = "sentimiento",
                                       ![r].emitidas = Sentencia("begin")]
            /\ tx' = [tx EXCEPT ![r].estado = "abierta"]
       ELSE Falla(r, "begin") /\ UNCHANGED tx
  /\ UNCHANGED <<llamada, arranque, prestados, bd>>

\* Mutant: the urgency handed to the INSERT is the base, not the computed one.
TrasSucursal_urgencia_base(s, busqueda, telefono) ==
  [s EXCEPT !.busqueda = busqueda,
            !.urgencia = 1,
            !.pc = IF Falsy(telefono) THEN "cliente_insert"
                   ELSE "cliente_select"]

\* Steps 5 and 6 and the start of step 7, which run without an await once
\* the branch is resolved: the urgency, and obtenerOCrearCliente up to its
\* first query.
TrasSucursal(s, busqueda, telefono) ==
  [s EXCEPT !.busqueda = busqueda,
            !.urgencia = calcularUrgencia(s.sentimiento, s.categoria),
            !.pc = IF Falsy(telefono) THEN "cliente_insert"
                   ELSE "cliente_select"]

\* await this.analizarSentimiento(...), then categorizarQueja, which reads
\* the cache without a query, then buscarSucursalInteligente up to its
\* query, if it makes one.
Sentimiento(r) ==
  /\ sol[r].pc = "sentimiento"
  /\ \E ok \in BOOLEAN :
       IF ok
       THEN LET norm == Norm(r)
                categoria == categorizarQueja(categoriasCache, norm.descripcion)
                s == [sol[r] EXCEPT
                        !.sentimiento =
                           analizar_sentimiento_basico(norm.descripcion),
                        !.categoria = categoria]
            IN  IF categoria.error THEN Falla(r, "categorizar")
                ELSE IF ConsultaSucursales(norm.sucursal)
                THEN sol' = [sol EXCEPT ![r] = [s EXCEPT !.pc = "sucursal"]]
                ELSE sol' = [sol EXCEPT ![r] =
                       TrasSucursal(s,
                         buscarSucursalInteligente(norm.sucursal, <<>>),
                         norm.telefono)]
       ELSE Falla(r, "sentimiento")
  /\ UNCHANGED <<llamada, arranque, prestados, tx, bd>>

\* await client.query('SELECT * FROM buscar_sucursales_inteligente($1, 3)')
Sucursal(r) ==
  /\ sol[r].pc = "sucursal"
  /\ \E ok \in BOOLEAN :
       IF ok
       THEN \E rows \in buscar_sucursales_inteligente(
                           TablaSucursales, Norm(r).sucursal, LimiteCandidatas) :
              sol' = [sol EXCEPT ![r] =
                        TrasSucursal(sol[r],
                          buscarSucursalInteligente(Norm(r).sucursal, rows),
                          Norm(r).telefono)]
       ELSE Falla(r, "sucursal")
  /\ UNCHANGED <<llamada, arranque, prestados, tx, bd>>

\* obtenerOCrearCliente: SELECT id FROM clientes WHERE telefono = $1.  The
\* statement sees the committed rows and those of its own transaction; of
\* several rows it takes the one the database returns first.
ClienteSelect(r) ==
  /\ sol[r].pc = "cliente_select"
  /\ \E ok \in BOOLEAN :
       IF ok
       THEN LET rows == ClientesCon(clientes \cup tx[r].clientes,
                                    Norm(r).telefono)
            IN  IF rows = {}
                THEN sol' = [sol EXCEPT ![r].pc = "cliente_insert"]
                ELSE \E existente \in rows :
                       sol' = [sol EXCEPT ![r].clienteId = existente.id,
                                          ![r].pc = "queja_insert"]
       ELSE Falla(r, "cliente_select")
  /\ UNCHANGED <<llamada, arranque, prestados, tx, bd>>

\* obtenerOCrearCliente: INSERT INTO clientes (nombre, telefono,
\* segmento_cliente) ... RETURNING id, with 'nuevo' or 'anonimo'.  The
\* sequence advances outside the transaction.
ClienteInsert(r) ==
  /\ sol[r].pc = "cliente_insert"
  /\ \E ok \in BOOLEAN :
       IF ok
       THEN LET id == serial.clientes + 1
            IN  /\ serial' = [serial EXCEPT !.clientes = id]
                /\ tx' = [tx EXCEPT ![r].clientes = @ \cup
                            { [id |-> id, telefono |-> Norm(r).telefono,
                               segmento_cliente |->
                                 IF Falsy(Norm(r).telefono) THEN "anonimo"
                                 ELSE "nuevo",
                               total_quejas |-> 0, por |-> r,
                               stat_por |-> 0] }]
                /\ sol' = [sol EXCEPT ![r].clienteId = id,
                                      ![r].pc = "queja_insert",
                                      ![r].emitidas =
                                        @ \o Sentencia("cliente_insert")]
       ELSE Falla(r, "cliente_insert") /\ UNCHANGED <<tx, serial>>
  /\ UNCHANGED <<llamada, arranque, prestados, clientes, quejas, insights_ia>>

\* Step 8: INSERT INTO quejas ... RETURNING id.
QuejaInsert(r) ==
  /\ sol[r].pc = "queja_insert"
  /\ \E ok \in BOOLEAN :
       IF ok
       THEN LET id == serial.quejas + 1
            IN  /\ serial' = [serial EXCEPT !.quejas = id]
                /\ tx' = [tx EXCEPT ![r].quejas = @ \cup
                            { [id |-> id, cliente_id |-> sol[r].clienteId,
                               sucursal_id |-> sol[r].busqueda.sucursal_id,
                               categoria_id |-> sol[r].categoria.categoria_id,
                               subcategoria_id |->
                                 ParametroId(sol[r].categoria.subcategoria_id),
                               sentimiento |-> sol[r].sentimiento.sentimiento,
                               score_sentimiento |-> sol[r].sentimiento.score,
                               urgencia |-> sol[r].urgencia,
                               palabras_clave |->
                                 extraerPalabrasClave(Norm(r).descripcion),
                               confianza_mapeo |-> sol[r].busqueda.confianza,
                               sucursales_candidatas |->
                                 sol[r].busqueda.candidatas,
                               por |-> r] }]
                /\ sol' = [sol EXCEPT ![r].quejaId = id,
                                      ![r].pc = "estadisticas",
                                      ![r].emitidas =
                                        @ \o Sentencia("queja_insert")]
       ELSE Falla(r, "queja_insert") /\ UNCHANGED <<tx, serial>>
  /\ UNCHANGED <<llamada, arranque, prestados, clientes, quejas, insights_ia>>

\* Mutant: the insight is written whatever the urgency.
TrasEstadisticas_siempre(r) == "insight"

\* generarInsightsSiEsNecesario makes its query only for urgencia >= 4.
TrasEstadisticas(r) == IF sol[r].urgencia >= 4 THEN "insight" ELSE "commit"

\* Step 9, actualizarEstadisticasCliente: UPDATE clientes SET total_quejas =
\* (SELECT COUNT(*) FROM quejas WHERE cliente_id = $1) WHERE id = $1.  The
\* count is taken on the rows the statement sees when it starts; the write
\* waits while another transaction holds the row.
Estadisticas(r) ==
  /\ sol[r].pc = "estadisticas"
  /\ \E ok \in BOOLEAN :
       IF ok
       THEN LET conteo == Cardinality({ q \in quejas \cup tx[r].quejas :
                                          q.cliente_id = sol[r].clienteId })
            IN  IF Bloqueada(r, sol[r].clienteId)
                THEN /\ sol' = [sol EXCEPT ![r].conteo = conteo,
                                           ![r].pc = "estadisticas_espera",
                                           ![r].emitidas =
                                             @ \o Sentencia("estadisticas")]
                     /\ UNCHANGED tx
                ELSE /\ sol' = [sol EXCEPT ![r].conteo = conteo,
                                           ![r].pc = TrasEstadisticas(r),
                                           ![r].emitidas =
                                             @ \o Sentencia("estadisticas")]
                     /\ tx' = [tx EXCEPT ![r].totales =
                                 { [id |-> sol[r].clienteId,
                                    total_quejas |-> conteo] }]
       ELSE Falla(r, "estadisticas") /\ UNCHANGED tx
  /\ UNCHANGED <<llamada, arranque, prestados, bd>>

\* The UPDATE of step 9 gets the row once the other transaction has ended.
EstadisticasAplicar(r) ==
  /\ sol[r].pc = "estadisticas_espera"
  /\ \E ok \in BOOLEAN :
       IF ok
       THEN /\ ~Bloqueada(r, sol[r].clienteId)
            /\ sol' = [sol EXCEPT ![r].pc = TrasEstadisticas(r)]
            /\ tx' = [tx EXCEPT ![r].totales =
                        { [id |-> sol[r].clienteId,
                           total_quejas |-> sol[r].conteo] }]
       ELSE /\ sol' = [sol EXCEPT ![r].fallo = "estadisticas",
                                  ![r].pc = "rollback"]
            /\ UNCHANGED tx
  /\ UNCHANGED <<llamada, arranque, prestados, bd>>

\* Step 10: INSERT INTO insights_ia.
Insight(r) ==
  /\ sol[r].pc = "insight"
  /\ \E ok \in BOOLEAN :
       IF ok
       THEN /\ tx' = [tx EXCEPT ![r].insights_ia = @ \cup
                        { [tipo_insight |-> "queja_critica",
                           titulo |-> sol[r].categoria.categoria_nombre,
                           urgencia |-> sol[r].urgencia, por |-> r] }]
            /\ sol' = [sol EXCEPT ![r].pc = "commit",
                                  ![r].emitidas = @ \o Sentencia("insight")]
       ELSE Falla(r, "insight") /\ UNCHANGED tx
  /\ UNCHANGED <<llamada, arranque, prestados, bd>>

\* await client.query('COMMIT'); then the result is returned through the
\* finally, which releases the client, and the webhook answers.
Commit(r) ==
  /\ sol[r].pc = "commit"
  /\ \E ok \in BOOLEAN :
       IF ok
       THEN /\ clientes' = ClientesTras(r)
            /\ quejas' = quejas \cup tx[r].quejas
            /\ insights_ia' = insights_ia \cup tx[r].insights_ia
            /\ tx' = [tx EXCEPT ![r] = [SinTransaccion EXCEPT
                                          !.estado = "COMMIT"]]
            /\ prestados' = prestados - 1
            /\ sol' = [sol EXCEPT
                         ![r].pc = "fin",
                         ![r].respuesta = RespuestaDeExito(sol[r].quejaId),
                         ![r].emitidas =
                           @ \o Sentencia("commit") \o <<"release">>]
       ELSE /\ Falla(r, "commit")
            /\ UNCHANGED <<tx, prestados, clientes, quejas, insights_ia>>
  /\ UNCHANGED <<llamada, arranque, serial>>

\* The catch: await client.query('ROLLBACK'); throw error; the finally
\* releases the client and the catch of the webhook answers.  Were the
\* ROLLBACK to throw, its error would take the same way out.
Rollback(r) ==
  /\ sol[r].pc = "rollback"
  /\ tx' = [tx EXCEPT ![r] = [SinTransaccion EXCEPT !.estado = "ROLLBACK"]]
  /\ prestados' = prestados - 1
  /\ sol' = [sol EXCEPT ![r].pc = "fin",
                        ![r].respuesta = RespuestaDeError(sol[r].fallo),
                        ![r].emitidas =
                          @ \o Sentencia("rollback") \o <<"release">>]
  /\ UNCHANGED <<llamada, arranque, bd>>

(***************************************************************************)
(* POST /webhook/nueva-queja of the basic server.  Each statement commits  *)
(* on its own.                                                             *)
(***************************************************************************)
\* A step throws: the finally releases the client and the outer catch
\* answers.
BasicoFalla(r, paso) ==
  /\ sol' = [sol EXCEPT ![r].fallo = paso, ![r].pc = "fin",
                        ![r].respuesta = RespuestaDeError(paso)]
  /\ prestados' = prestados - 1

\* The code that runs without an await once the branch is known, up to the
\* first query on clientes.
BasicoTrasSucursal(s, sucursalId) ==
  [s EXCEPT !.busqueda.sucursal_id = sucursalId,
            !.pc = IF ~Falsy(s.datos.telefono)
                      /\ s.datos.telefono # <<"e","d","n","a">>
                   THEN "b_cliente_select" ELSE "b_cliente_insert"]

\* const client = await pool.connect()
BasicoConectar(r) ==
  /\ sol[r].pc = "b_conectar"
  /\ \E ok \in BOOLEAN :
       IF ok
       THEN /\ sol' = [sol EXCEPT ![r].pc = "b_sentimiento"]
            /\ prestados' = prestados + 1
       ELSE /\ sol' = [sol EXCEPT ![r].pc = "fin",
                                  ![r].fallo = "conectar",
                                  ![r].respuesta = RespuestaDeError("conectar")]
            /\ UNCHANGED prestados
  /\ UNCHANGED <<llamada, arranque, tx, bd>>

\* SELECT * FROM analizar_sentimiento_basico($1) on the description as
\* submitted.
BasicoSentimiento(r) ==
  /\ sol[r].pc = "b_sentimiento"
  /\ \E ok \in BOOLEAN :
       IF ok
       THEN LET s == [sol[r] EXCEPT
                        !.sentimiento = analizar_sentimiento_basico(
                                          Parametro(sol[r].datos.descripcion))]
            IN  /\ IF ~Falsy(s.datos.sucursal)
                   THEN sol' = [sol EXCEPT ![r] = [s EXCEPT !.pc = "b_sucursal"]]
                   ELSE sol' = [sol EXCEPT ![r] = BasicoTrasSucursal(s, IdNulo)]
                /\ UNCHANGED prestados
       ELSE BasicoFalla(r, "sentimiento")
  /\ UNCHANGED <<llamada, arranque, tx, bd>>

\* SELECT s.id, s.nombre FROM sucursales s JOIN municipios m ... WHERE
\* LOWER(s.nombre) LIKE LOWER($1) OR LOWER(m.nombre) LIKE LOWER($1) LIMIT 1
\* with $1 = `%${sucursal}%`: one of the matching rows, no order asked.
BasicoSucursal(r) ==
  /\ sol[r].pc = "b_sucursal"
  /\ \E ok \in BOOLEAN :
       IF ok
       THEN LET patron == LOWER(Rodeado(sol[r].datos.sucursal))
                rows == { f \in SucursalesUnidas(TablaSucursales) :
                            \/ LIKE(LOWER(f.s.nombre), patron)
                            \/ LIKE(LOWER(f.m.nombre), patron) }
            IN  /\ IF rows = {}
                   THEN sol' = [sol EXCEPT ![r] =
                                  BasicoTrasSucursal(sol[r], IdNulo)]
                   ELSE \E f \in rows :
                          sol' = [sol EXCEPT ![r] =
                                    BasicoTrasSucursal(sol[r], f.s.id)]
                /\ UNCHANGED prestados
       ELSE BasicoFalla(r, "sucursal")
  /\ UNCHANGED <<llamada, arranque, tx, bd>>

\* Step 4 runs without an await once the customer is known:
\* descripcion.toLowerCase() throws on a submission without descripcion.
BasicoTrasCliente(r, clienteId) ==
  IF sol[r].datos.descripcion = Undefined
  THEN BasicoFalla(r, "urgencia")
  ELSE /\ sol' = [sol EXCEPT
                    ![r].clienteId = clienteId,
                    ![r].urgencia = urgenciaBasica(sol[r].sentimiento,
                                                   sol[r].datos.descripcion),
                    ![r].pc = "b_queja_insert"]
       /\ UNCHANGED prestados

\* SELECT id FROM clientes WHERE telefono = $1
BasicoClienteSelect(r) ==
  /\ sol[r].pc = "b_cliente_select"
  /\ \E ok \in BOOLEAN :
       IF ok
       THEN LET rows == ClientesCon(clientes, sol[r].datos.telefono)
            IN  IF rows = {}
                THEN /\ sol' = [sol EXCEPT ![r].pc = "b_cliente_insert"]
                     /\ UNCHANGED prestados
                ELSE \E clienteExistente \in rows :
                       BasicoTrasCliente(r, clienteExistente.id)
       ELSE BasicoFalla(r, "cliente_select")
  /\ UNCHANGED <<llamada, arranque, tx, bd>>

\* INSERT INTO clientes (nombre, telefono) or INSERT INTO clientes (nombre),
\* committed when the statement ends; segmento_cliente, which has no
\* default, stays NULL.
BasicoClienteInsert(r) ==
  /\ sol[r].pc = "b_cliente_insert"
  /\ \E ok \in BOOLEAN :
       IF ok
       THEN LET id == serial.clientes + 1
                telefono == sol[r].datos.telefono
            IN  /\ serial' = [serial EXCEPT !.clientes = id]
                /\ clientes' = clientes \cup
                     { [id |-> id,
                        telefono |-> IF ~Falsy(telefono)
                                        /\ telefono # <<"e","d","n","a">>
                                     THEN telefono ELSE Null,
                        segmento_cliente |-> NombreNulo,
                        total_quejas |-> 0, por |-> r, stat_por |-> 0] }
                /\ BasicoTrasCliente(r, id)
       ELSE BasicoFalla(r, "cliente_insert") /\ UNCHANGED <<clientes, serial>>
  /\ UNCHANGED <<llamada, arranque, tx, quejas, insights_ia>>

\* Step 5: INSERT INTO quejas ... RETURNING id, committed when the statement
\* ends; then res.json and, in the finally, client.release().
BasicoQuejaInsert(r) ==
  /\ sol[r].pc = "b_queja_insert"
  /\ \E ok \in BOOLEAN :
       IF ok
       THEN LET id == serial.quejas + 1
            IN  /\ serial' = [serial EXCEPT !.quejas = id]
                /\ quejas' = quejas \cup
                     { [id |-> id, cliente_id |-> sol[r].clienteId,
                        sucursal_id |-> sol[r].busqueda.sucursal_id,
                        categoria_id |-> IdNulo,
                        subcategoria_id |-> IdNulo,
                        sentimiento |-> sol[r].sentimiento.sentimiento,
                        score_sentimiento |-> sol[r].sentimiento.score,
                        urgencia |-> sol[r].urgencia,
                        palabras_clave |-> ArregloNulo,
                        confianza_mapeo |-> DecimalNulo,
                        sucursales_candidatas |-> ArregloNulo,
                        por |-> r] }
                /\ sol' = [sol EXCEPT ![r].quejaId = id,
                                      ![r].pc = "fin",
                                      ![r].respuesta = RespuestaDeExito(id)]
                /\ prestados' = prestados - 1
       ELSE BasicoFalla(r, "queja_insert") /\ UNCHANGED <<quejas, serial>>
  /\ UNCHANGED <<llamada, arranque, tx, clientes, insights_ia>>

(***************************************************************************)
(* Specification of the servers.                                           *)
(***************************************************************************)
\* No component is called on its own.
SinLlamada == [op |-> "ninguna", hecho |-> TRUE]

\* The servers before they start.
ProcesoParado(p) ==
  /\ programa = p
  /\ escuchando = (p = "basico")
  /\ cargador = [c \in Cargas |-> IF p = "ia" THEN "inicio" ELSE "fin"]
  /\ categoriasCache = CacheVacio
  /\ prestados = 0
  /\ sol = [r \in Solicitudes |-> SolicitudNueva]
  /\ tx = [r \in Solicitudes |-> SinTransaccion]
  /\ clientes = { ClienteConocido }
  /\ quejas = { QuejaConocida }
  /\ insights_ia = {}
  /\ serial = [clientes |-> 1, quejas |-> 1]

Init ==
  /\ llamada = SinLlamada
  /\ \E p \in {"ia", "basico"} : ProcesoParado(p)

Next ==
  \/ \E c \in Cargas : cargarCachesConectar(c)
  \/ \E c \in Cargas : cargarCachesConsultar(c)
  \/ \E r \in Solicitudes : Recibir(r)
  \/ \E r \in Solicitudes : Conectar(r)
  \/ \E r \in Solicitudes : Begin(r)
  \/ \E r \in Solicitudes : Sentimiento(r)
  \/ \E r \in Solicitudes : Sucursal(r)
  \/ \E r \in Solicitudes : ClienteSelect(r)
  \/ \E r \in Solicitudes : ClienteInsert(r)
  \/ \E r \in Solicitudes : QuejaInsert(r)
  \/ \E r \in Solicitudes : Estadisticas(r)
  \/ \E r \in Solicitudes : EstadisticasAplicar(r)
  \/ \E r \in Solicitudes : Insight(r)
  \/ \E r \in Solicitudes : Commit(r)
  \/ \E r \in Solicitudes : Rollback(r)
  \/ \E r \in Solicitudes : BasicoConectar(r)
  \/ \E r \in Solicitudes : BasicoSentimiento(r)
  \/ \E r \in Solicitudes : BasicoSucursal(r)
  \/ \E r \in Solicitudes : BasicoClienteSelect(r)
  \/ \E r \in Solicitudes : BasicoClienteInsert(r)
  \/ \E r \in Solicitudes : BasicoQuejaInsert(r)

Spec == Init /\ [][Next]_vars

(***************************************************************************)
(* Specification of the pure components: each action applies one of them   *)
(* to an input drawn from its bounded input set.                           *)
(***************************************************************************)
\* The inputs: one pending call per component and input.
EntradasSentimiento ==
  { [op |-> "sentimiento", hecho |-> FALSE, texto |-> t] : t \in Textos }

\* Descriptions as submitted: missing, empty, blank, or a text.
DescripcionesCrudas == { Undefined, <<>>, <<" ", " ">> } \cup Textos

EntradasCategorizar ==
  { [op |-> "categorizar", hecho |-> FALSE,
     datos |-> [DatosVacios EXCEPT !.descripcion = d], cache |-> c] :
      d \in DescripcionesCrudas, c \in CachesPosibles }

\* Branch hints as submitted: missing, empty, blank, or a text.
UbicacionesCrudas ==
  { Undefined, <<>>, <<" ", " ">>,
    <<"M","O","N","T","E","R","R","E","Y">>, <<"m","o","n","t">>,
    <<"c","e","n","t","r","o">>, <<"a","p","o","d","a","c","a">>,
    <<"1","0">>, <<"1">>, <<"n","l">>, <<"z","z","z">>,
    <<"%">>, <<"c","_","n","t","r","o">> }

EntradasBuscar ==
  { [op |-> "buscar", hecho |-> FALSE,
     datos |-> [DatosVacios EXCEPT !.sucursal = u], sucursales |-> c] :
      u \in UbicacionesCrudas, c \in SUBSET SucursalesPosibles }

LlamarSentimiento ==
  /\ llamada.op = "sentimiento"
  /\ ~llamada.hecho
  /\ UNCHANGED proceso
  /\ llamada' = [op |-> "sentimiento", hecho |-> TRUE,
                 texto |-> llamada.texto,
                 res |-> analizar_sentimiento_basico(llamada.texto)]

\* categorizarQueja(datosNormalizados.descripcion), as procesarQuejaConIA
\* calls it.
LlamarCategorizar ==
  /\ llamada.op = "categorizar"
  /\ ~llamada.hecho
  /\ UNCHANGED proceso
  /\ LET norm == normalizarDatos(llamada.datos)
     IN  llamada' = [op |-> "categorizar", hecho |-> TRUE,
                     datos |-> llamada.datos, cache |-> llamada.cache,
                     descripcion |-> norm.descripcion,
                     res |-> categorizarQueja(llamada.cache, norm.descripcion)]

\* buscarSucursalInteligente(client, datosNormalizados.sucursal), as
\* procesarQuejaConIA calls it, on a catalog of branches.
LlamarBuscar ==
  /\ llamada.op = "buscar"
  /\ ~llamada.hecho
  /\ UNCHANGED proceso
  /\ LET norm == normalizarDatos(llamada.datos)
         consulta == ConsultaSucursales(norm.sucursal)
     IN  \E rows \in IF consulta
                      THEN buscar_sucursales_inteligente(
                             llamada.sucursales, norm.sucursal,
                             LimiteCandidatas)
                      ELSE { <<>> } :
           llamada' = [op |-> "buscar", hecho |-> TRUE,
                       datos |-> llamada.datos,
                       sucursales |-> llamada.sucursales,
                       ubicacion |-> norm.sucursal,
                       consulta |-> consulta,
                       rows |-> rows,
                       res |-> buscarSucursalInteligente(norm.sucursal, rows)]

\* Texts for the urgency computations: words of the sentiment lists, of the
\* category keywords and of the emergency lists.
VocabularioUrgencia ==
  << <<"H","O","R","R","I","B","L","E">>,
     <<"m","a","l","o","s">>,
     <<"s","u","c","i","o">>,
     <<"H","o","s","p","i","t","a","l">>,
     <<"b","u","e","n","o">> >>

RECURSIVE UnirDe(_, _)
UnirDe(voc, ws) ==
  IF ws = <<>> THEN <<>>
  ELSE IF Len(ws) = 1 THEN voc[ws[1]]
  ELSE voc[ws[1]] \o <<" ">> \o UnirDe(voc, Tail(ws))

TextosUrgencia ==
  { UnirDe(VocabularioUrgencia, ws) :
      ws \in UNION { [1..n -> DOMAIN VocabularioUrgencia] :
                       n \in 0..MaxPalabras } }

\* The labels analizar_sentimiento_basico returns, with their scores.
Sentimientos ==
  { [sentimiento |-> "muy_negativo", score |-> -80],
    [sentimiento |-> "negativo", score |-> -40],
    [sentimiento |-> "positivo", score |-> 60],
    [sentimiento |-> "neutral", score |-> 0] }

\* Names of categories of the seed, with and without a bonus.
NombresDeCategoria ==
  { "Calidad del Producto", "Servicio al Cliente", "Higiene y Limpieza",
    "Personal", "Tecnología", "Satisfacción General" }

\* calcularUrgencia on a label and a category as categorizarQueja returns
\* them.
EntradasUrgencia ==
  { [op |-> "urgencia", hecho |-> FALSE, sentimiento |-> s,
     categoria |-> [CategoriaPorDefecto EXCEPT !.categoria_nombre = n]] :
      s \in Sentimientos, n \in NombresDeCategoria }

\* The cache never loaded, and loaded from the rows in two orders.
CachesDeUrgencia == { CacheVacio } \cup { CacheDe(f) : f \in OrdenesDeCarga }

\* Steps 1 to 5 of procesarQuejaConIA on a submission and a cache.
EntradasUrgenciaQueja ==
  { [op |-> "urgencia_queja", hecho |-> FALSE,
     datos |-> [DatosVacios EXCEPT !.descripcion = d], cache |-> c] :
      d \in TextosUrgencia, c \in CachesDeUrgencia }

\* Steps 1 and 4 of the basic webhook on a description.
EntradasUrgenciaBasica ==
  { [op |-> "urgencia_basica", hecho |-> FALSE, descripcion |-> d] :
      d \in TextosUrgencia }

LlamarUrgencia ==
  /\ llamada.op = "urgencia"
  /\ ~llamada.hecho
  /\ UNCHANGED proceso
  /\ llamada' = [op |-> "urgencia", hecho |-> TRUE,
                 sentimiento |-> llamada.sentimiento,
                 categoria |-> llamada.categoria,
                 res |-> calcularUrgencia(llamada.sentimiento,
                                          llamada.categoria)]

LlamarUrgenciaQueja ==
  /\ llamada.op = "urgencia_queja"
  /\ ~llamada.hecho
  /\ UNCHANGED proceso
  /\ LET norm == normalizarDatos(llamada.datos)
         sentimientoAnalisis == analizar_sentimiento_basico(norm.descripcion)
         categorizacion == categorizarQueja(llamada.cache, norm.descripcion)
     IN  llamada' = [op |-> "urgencia_queja", hecho |-> TRUE,
                     datos |-> llamada.datos, cache |-> llamada.cache,
                     descripcion |-> norm.descripcion,
                     sentimiento |-> sentimientoAnalisis,
                     categoria |-> categorizacion,
                     res |-> calcularUrgencia(sentimientoAnalisis,
                                              categorizacion)]

LlamarUrgenciaBasica ==
  /\ llamada.op = "urgencia_basica"
  /\ ~llamada.hecho
  /\ UNCHANGED proceso
  /\ LET sentimiento ==
           analizar_sentimiento_basico(Parametro(llamada.descripcion))
     IN  llamada' = [op |-> "urgencia_basica", hecho |-> TRUE,
                     descripcion |-> llamada.descripcion,
                     sentimiento |-> sentimiento,
                     res |-> urgenciaBasica(sentimiento, llamada.descripcion)]

\* Texts for extraerPalabrasClave: a sentence, then words that repeat, that
\* the filter drops, that an accent or a comma splits, and that name a
\* property frecuencia inherits.
VocabularioClave ==
  << <<"p","o","l","l","o">>,
     <<"H","O","R","R","I","B","L","E">>,
     <<"p","a","r","a">>,
     <<"c","o","n","s","t","r","u","c","t","o","r">>,
     <<"2","0","2","4">>,
     <<"A","t","e","n","c","i","ó","n",",">>,
     <<"_","_","p","r","o","t","o","_","_">> >>

Prefijos ==
  { <<>>,
    <<"E","l"," ","m","e","s","e","r","o"," ","e","s","t","a","b","a"," ",
      "s","u","c","i","o"," ","y"," ","c","r","u","d","o"," ">> }

TextosClave ==
  { p \o UnirDe(VocabularioClave, ws) :
      p \in Prefijos,
      ws \in UNION { [1..n -> DOMAIN VocabularioClave] :
                       n \in 0..MaxPalabras } }

\* Steps 1 and 6 of procesarQuejaConIA on a submission.
EntradasPalabrasClave ==
  { [op |-> "palabras_clave", hecho |-> FALSE,
     datos |-> [DatosVacios EXCEPT !.descripcion = d]] :
      d \in TextosClave }

LlamarPalabrasClave ==
  /\ llamada.op = "palabras_clave"
  /\ ~llamada.hecho
  /\ UNCHANGED proceso
  /\ LET norm == normalizarDatos(llamada.datos)
     IN  llamada' = [op |-> "palabras_clave", hecho |-> TRUE,
                     datos |-> llamada.datos,
                     descripcion |-> norm.descripcion,
                     res |-> extraerPalabrasClave(norm.descripcion)]

\* Raw values of a submission for the normalizer: missing, null, blank,
\* texts, a text longer than the limit, numbers, an object and a Date.
TextoLargo == [i \in 1..(LargoMaximo + 1) |-> "x"]

DescripcionesANormalizar ==
  { Undefined, Null, <<>>, <<" ", " ">>,
    <<" ","p","o","l","l","o"," ","f","r","í","o"," ">>,
    TextoLargo, <<" ">> \o TextoLargo,
    Numero(<<"0">>), Numero(<<"4","2">>), Objeto, Fecha }

TelefonosANormalizar ==
  { Undefined, Null, <<>>,
    <<"e","d","n","a">>,
    <<"u","r","l">>,
    <<"h","t","t","p",":","/","/","u","r","l",".","m","x","/","5","5","1","2","3","4","5","6","7","8">>,
    <<"h","t","t","p","s",":","/","/","w","a",".","m","e","/","5","5","1","2","3","4","5","6","7","8">>,
    <<"5","5"," ","1","2","3","4"," ","5","6","7","8">>,
    <<"+","5","2"," ","(","8","1",")"," ","8","7","6","5","-","4","3","2","1">>,
    <<"5","5","1","2","3","4","5","6","7","8">>,
    <<"5","2","5","5","1","2","3","4","5","6","7","8">>,
    <<"0","1","5","5","1","2","3","4","5","6","7","8">>,
    <<"1","5","5","1","2","3","4","5","6","7","8">>,
    <<"1","2","3","4","5">>,
    Numero(<<"0">>), Numero(<<"5","5","1","2","3","4","5","6","7","8">>),
    Numero(<<"5","2","5","5","1","2","3","4","5","6","7","8">>), Objeto, Fecha }

ClavesDeDescripcion == {"descripcion", "Descripcion_", "descripcion_"}
ClavesDeTelefono == {"telefono", "Telefono"}

EntradasNormalizar ==
  { [op |-> "normalizar", hecho |-> FALSE,
     datos |-> [k \in DOMAIN DatosVacios |->
                  IF k = kd THEN d ELSE IF k = kt THEN t ELSE Undefined]] :
      d \in DescripcionesANormalizar, kd \in ClavesDeDescripcion,
      t \in TelefonosANormalizar, kt \in ClavesDeTelefono }

\* this.normalizarDatos(datos): the record, or no value when it throws.
LlamarNormalizar ==
  /\ llamada.op = "normalizar"
  /\ ~llamada.hecho
  /\ UNCHANGED proceso
  /\ llamada' = [op |-> "normalizar", hecho |-> TRUE,
                 datos |-> llamada.datos,
                 lanzo |-> normalizarDatosLanza(llamada.datos),
                 res |-> IF normalizarDatosLanza(llamada.datos)
                         THEN Undefined
                         ELSE normalizarDatos(llamada.datos)]

\* The components are called on their own, the servers stopped.
InitPuras ==
  /\ llamada \in EntradasSentimiento \cup EntradasCategorizar
                   \cup EntradasBuscar \cup EntradasUrgencia
                   \cup EntradasUrgenciaQueja \cup EntradasUrgenciaBasica
                   \cup EntradasPalabrasClave \cup EntradasNormalizar
  /\ ProcesoParado("ia")

NextPuras ==
  \/ LlamarSentimiento
  \/ LlamarCategorizar
  \/ LlamarBuscar
  \/ LlamarUrgencia
  \/ LlamarUrgenciaQueja
  \/ LlamarUrgenciaBasica
  \/ LlamarPalabrasClave
  \/ LlamarNormalizar

SpecPuras == InitPuras /\ [][NextPuras]_vars

\* Number of distinct elements of the array arr that occur in s.
Distintas(arr, s) ==
  Cardinality({ k \in { arr[i] : i \in DOMAIN arr } : includes(s, k) })

negCount(texto) == Distintas(palabras_negativas, LOWER(texto))
posCount(texto) == Distintas(palabras_positivas, LOWER(texto))

\* C3: the sentiment result is the fixed function of (negCount, posCount):
\* more than one negative keyword in excess gives (muy_negativo, -0.8),
\* exactly one in excess (negativo, -0.4), more positive than negative
\* (positivo, 0.6), a tie (neutral, 0.0); no other pair is produced.
C3_SentimientoFuncionDeConteos ==
  (llamada.op = "sentimiento" /\ llamada.hecho) =>
    LET n == negCount(llamada.texto)
        p == posCount(llamada.texto)
    IN  llamada.res =
          IF n > p + 1 THEN [sentimiento |-> "muy_negativo", score |-> -80]
          ELSE IF n = p + 1 THEN [sentimiento |-> "negativo", score |-> -40]
          ELSE IF p > n THEN [sentimiento |-> "positivo", score |-> 60]
          ELSE [sentimiento |-> "neutral", score |-> 0]

C3_Testigo ==
  /\ llamada.op = "sentimiento"
  /\ llamada.hecho
  /\ negCount(llamada.texto) = posCount(llamada.texto) + 1
  /\ posCount(llamada.texto) = 1
  /\ llamada.res.sentimiento = "negativo"

\* C4: a text with at least two distinct negative keywords and no positive
\* keyword, in any letter case, is labelled muy_negativo.
C4_DosNegativasMuyNegativo ==
  (/\ llamada.op = "sentimiento" /\ llamada.hecho
   /\ negCount(llamada.texto) >= 2
   /\ posCount(llamada.texto) = 0)
  => llamada.res.sentimiento = "muy_negativo"

C4_Testigo ==
  /\ llamada.op = "sentimiento" /\ llamada.hecho
  /\ negCount(llamada.texto) = 2
  /\ posCount(llamada.texto) = 0
  /\ llamada.texto # LOWER(llamada.texto)
  /\ llamada.res.sentimiento = "muy_negativo"

\* Some keyword of the catalog subcategory sc occurs in the text.
SubcategoriaCoincide(sc, descripcion) ==
  \E i \in DOMAIN sc.keywords :
    includes(LOWER(descripcion), LOWER(sc.keywords[i]))

\* Registration order of the catalog: category id, then subcategory id.
RegistradaAntesOIgual(a, b) ==
  \/ a.categoria_id < b.categoria_id
  \/ a.categoria_id = b.categoria_id /\ a.id <= b.id

\* C5: when keywords of several subcategories occur in the text, the
\* categorizer returns the subcategory registered first in the catalog
\* (category order, then subcategory order) and, within it, the first
\* keyword of its list that occurs.
C5_PrimeraRegistradaGana ==
  (/\ llamada.op = "categorizar" /\ llamada.hecho
   /\ ~llamada.res.error
   /\ llamada.res.keyword_encontrada # Null)
  => LET devuelta ==
           CHOOSE sc \in subcategorias_quejas :
             /\ sc.nombre = llamada.res.subcategoria_nombre
             /\ sc.categoria_id = llamada.res.categoria_id
     IN  /\ \A sc \in subcategorias_quejas :
              SubcategoriaCoincide(sc, llamada.descripcion)
                => RegistradaAntesOIgual(devuelta, sc)
         /\ \A i \in DOMAIN devuelta.keywords :
              includes(LOWER(llamada.descripcion), LOWER(devuelta.keywords[i]))
                => \E j \in 1..i :
                     devuelta.keywords[j] = llamada.res.keyword_encontrada

\* C6: the categorizer never throws on a normalized description, whatever
\* the cache holds, and when no keyword of the cache occurs in the text it
\* returns category 10 'Satisfacción General' with no subcategory and no
\* keyword.
C6_CategorizadorTotalConDefecto ==
  (llamada.op = "categorizar" /\ llamada.hecho) =>
    /\ ~llamada.res.error
    /\ (\A pos \in Posiciones(llamada.cache) :
          ~includes(LOWER(llamada.descripcion),
                    LOWER(llamada.cache[pos[1]].subcategorias[pos[2]]
                            .keywords[pos[3]])))
       => /\ llamada.res.categoria_id = 10
          /\ llamada.res.categoria_nombre = "Satisfacción General"
          /\ llamada.res.subcategoria_id = IdNulo
          /\ llamada.res.subcategoria_nombre = NombreNulo
          /\ llamada.res.keyword_encontrada = Null

\* A loaded cache, a text none of its keywords occurs in: the default.
C6_Testigo ==
  /\ llamada.op = "categorizar" /\ llamada.hecho
  /\ llamada.cache # CacheVacio
  /\ llamada.datos.descripcion \in Textos
  /\ llamada.datos.descripcion # <<>>
  /\ llamada.res = CategoriaPorDefecto

\* The joined rows of the active branches of the call's catalog.
Activas == { f \in SucursalesUnidas(llamada.sucursales) : f.s.activa }

\* The joined row of the branch a result row names.
UnidaDe(row) ==
  CHOOSE f \in SucursalesUnidas(llamada.sucursales) : f.s.id = row.sucursal_id

BuscarHecho == llamada.op = "buscar" /\ llamada.hecho

\* C7: with the hint absent or empty no catalog query is made and the
\* result is branch null, confidence 0, no candidates, 'Sin especificar';
\* with a hint that no active branch matches it is the same but for the
\* name 'No encontrada', which differs from 'Sin especificar'.
C7_SinPistaSinConsulta ==
  BuscarHecho =>
    /\ Falsy(llamada.ubicacion)
         => /\ ~llamada.consulta
            /\ llamada.res = [sucursal_id |-> IdNulo,
                              sucursal_nombre |-> SinEspecificar,
                              confianza |-> 0, candidatas |-> <<>>]
    /\ (/\ ~Falsy(llamada.ubicacion)
        /\ \A f \in Activas :
             \A n \in 1..6 : ~CondicionNivel(n, f, llamada.ubicacion))
         => /\ llamada.consulta
            /\ llamada.res = [sucursal_id |-> IdNulo,
                              sucursal_nombre |-> NoEncontrada,
                              confianza |-> 0, candidatas |-> <<>>]
            /\ llamada.res.sucursal_nombre # SinEspecificar

C7_Testigo ==
  /\ BuscarHecho
  /\ llamada.datos.sucursal = Undefined
  /\ Activas # {}
  /\ llamada.res.sucursal_nombre = SinEspecificar

\* The tiers as the specification words them: equality with the external
\* key, name or municipality, the name or the municipality containing the
\* hint, equality with the state code; letter case ignored but for the key.
NivelesSatisfechos(f, hint) ==
  { n \in 1..6 :
      CASE n = 1 -> /\ f.s.external_key # IdNulo
                    /\ EnteroATexto(f.s.external_key) = hint
        [] n = 2 -> LOWER(f.s.nombre) = LOWER(hint)
        [] n = 3 -> LOWER(f.m.nombre) = LOWER(hint)
        [] n = 4 -> includes(LOWER(f.s.nombre), LOWER(hint))
        [] n = 5 -> includes(LOWER(f.m.nombre), LOWER(hint))
        [] n = 6 -> LOWER(f.e.codigo) = LOWER(hint) }

\* C8: every branch returned carries the confidence and the reason of the
\* highest tier it satisfies among exact key 1.00, exact name 0.95, exact
\* municipality 0.85, name contains hint 0.75, municipality contains hint
\* 0.65, state code 0.60; confidences of several tiers are not added up.
C8_MejorNivelSatisfecho ==
  (BuscarHecho /\ llamada.consulta) =>
    \A i \in DOMAIN llamada.rows :
      LET row == llamada.rows[i]
          T == NivelesSatisfechos(UnidaDe(row), llamada.ubicacion)
      IN  \E n \in T :
            /\ row.confianza = ConfianzaNivel[n]
            /\ row.razon = RazonNivel[n]
            /\ \A k \in T : ConfianzaNivel[k] <= ConfianzaNivel[n]

\* C9: every row returned is of an active branch that meets one of the six
\* conditions of the CASE, so its confidence is one of 1.00, 0.95, 0.85,
\* 0.75, 0.65, 0.60 and never the 0.30 of 'Coincidencia baja'.
C9_NivelBajoInalcanzable ==
  (BuscarHecho /\ llamada.consulta) =>
    \A i \in DOMAIN llamada.rows :
      LET row == llamada.rows[i]
      IN  /\ UnidaDe(row).s.activa
          /\ \E n \in 1..6 :
               CondicionNivel(n, UnidaDe(row), llamada.ubicacion)
          /\ row.confianza \in {100, 95, 85, 75, 65, 60}
          /\ row.confianza # 30
          /\ row.razon # "Coincidencia baja"

\* Rows are returned while the catalog holds an inactive branch named as
\* the hint and an active branch that meets none of the conditions.
C9_Testigo ==
  /\ BuscarHecho /\ llamada.consulta
  /\ Len(llamada.rows) > 0
  /\ \E s \in llamada.sucursales :
       ~s.activa /\ LOWER(s.nombre) = LOWER(llamada.ubicacion)
  /\ \E f \in Activas :
       \A n \in 1..6 : ~CondicionNivel(n, f, llamada.ubicacion)

\* The confidence of the best condition the joined row f meets.
MejorConfianza(f, hint) ==
  CHOOSE c \in { ConfianzaNivel[n] :
                   n \in { k \in 1..6 : CondicionNivel(k, f, hint) } } :
    \A n \in 1..6 : CondicionNivel(n, f, hint) => ConfianzaNivel[n] <= c

\* The active branches that meet a condition and are not in the result.
Omitidas ==
  { f \in Activas :
      /\ \E n \in 1..6 : CondicionNivel(n, f, llamada.ubicacion)
      /\ \A i \in DOMAIN llamada.rows :
           llamada.rows[i].sucursal_id # f.s.id }

\* C10: the result is sorted by confidence descending, equal confidences
\* by branch name ascending, holds at most 3 rows, and no branch left out
\* ranks before a branch that is in it.
C10_OrdenadoYLimitado ==
  (BuscarHecho /\ llamada.consulta) =>
    /\ Len(llamada.rows) <= 3
    /\ \A i, j \in DOMAIN llamada.rows :
         i < j =>
           \/ llamada.rows[i].confianza > llamada.rows[j].confianza
           \/ /\ llamada.rows[i].confianza = llamada.rows[j].confianza
              /\ ~MenorTexto(llamada.rows[j].nombre, llamada.rows[i].nombre)
    /\ \A f \in Omitidas :
         \A i \in DOMAIN llamada.rows :
           LET c == MejorConfianza(f, llamada.ubicacion)
           IN  /\ c <= llamada.rows[i].confianza
               /\ c = llamada.rows[i].confianza
                    => ~MenorTexto(f.s.nombre, llamada.rows[i].nombre)

\* A result cut at the limit, with two confidences in it and a tie by
\* name order.
C10_Testigo ==
  /\ BuscarHecho /\ llamada.consulta
  /\ Len(llamada.rows) = 3
  /\ Omitidas # {}
  /\ llamada.rows[1].confianza > llamada.rows[2].confianza
  /\ llamada.rows[2].confianza = llamada.rows[3].confianza
  /\ MenorTexto(llamada.rows[2].nombre, llamada.rows[3].nombre)


(***************************************************************************)
(* Claims on the submission as a whole, checked under Spec.                *)
(***************************************************************************)
\* The steps after the start of the transaction that the claims name.
PasosDeLaTransaccion ==
  { "sentimiento", "sucursal", "cliente_select", "cliente_insert",
    "queja_insert", "estadisticas", "insight" }

\* The rows and values that submission r has written and that are
\* committed.
EscriturasDe(r) ==
  { c \in clientes : c.por = r \/ c.stat_por = r }
  \cup { q \in quejas : q.por = r }
  \cup { i \in insights_ia : i.por = r }

\* C1: a submission is all-or-nothing: when one of its steps after the
\* start of the transaction has failed, none of its writes (customer row,
\* complaint row, total_quejas, insight row) is in the persistent state
\* once its handler has ended.
C1_TodoONada ==
  \A r \in Solicitudes :
    sol[r].pc = "fin" /\ sol[r].fallo \in PasosDeLaTransaccion
      => EscriturasDe(r) = {}

\* C2: a failed submission is reported as a failure: when a step has
\* thrown, the handler ends with the answer 500 and success = false, and no
\* answer is sent before the handler ends; an answer of success carries the
\* id of a complaint row that is committed, in the IA server after COMMIT
\* and never after ROLLBACK.
C2_FalloSiempreInformado ==
  \A r \in Solicitudes :
    /\ sol[r].pc # "fin" => sol[r].respuesta = SinRespuesta
    /\ sol[r].pc = "fin" /\ sol[r].fallo # "ninguno"
         => sol[r].respuesta.status = 500 /\ ~sol[r].respuesta.success
    /\ sol[r].pc = "fin" /\ sol[r].fallo = "ninguno"
         => sol[r].respuesta.status = 200 /\ sol[r].respuesta.success
    /\ sol[r].respuesta.success
         => /\ sol[r].fallo = "ninguno"
            /\ \E q \in quejas :
                 q.id = sol[r].respuesta.queja_id /\ q.por = r
            /\ programa = "ia" => tx[r].estado = "COMMIT"
    /\ tx[r].estado = "ROLLBACK" /\ sol[r].pc = "fin"
         => ~sol[r].respuesta.success /\ EscriturasDe(r) = {}

\* One submission failed after a write of its transaction and was answered
\* with 500, another was answered with success after its COMMIT.
C2_Testigo ==
  \E r, q \in Solicitudes :
    /\ programa = "ia"
    /\ sol[r].pc = "fin" /\ sol[r].fallo \in {"estadisticas", "insight"}
    /\ sol[r].respuesta.status = 500
    /\ sol[q].pc = "fin" /\ sol[q].respuesta.success
    /\ tx[q].estado = "COMMIT"

\* A submission to the IA server failed after its customer and complaint
\* rows were written, and its handler has ended.
IA_FalloTrasEscribir ==
  \E r \in Solicitudes :
    /\ programa = "ia" /\ sol[r].pc = "fin"
    /\ sol[r].fallo \in {"estadisticas", "insight"}

\* The all-or-nothing property on the IA server alone.
IA_TodoONada == programa = "ia" => C1_TodoONada

\* The hint is, but for case, the name of an active branch and the external
\* key of no branch.
PistaEsNombreExacto ==
  /\ BuscarHecho /\ llamada.consulta
  /\ \E f \in Activas : LOWER(f.s.nombre) = LOWER(llamada.ubicacion)
  /\ \A s \in llamada.sucursales :
       s.external_key = IdNulo
         \/ EnteroATexto(s.external_key) # llamada.ubicacion

\* C11: when the hint equals, case-insensitively, the name of an active
\* branch and no external key, the first candidate is a branch of that name
\* with confidence 0.95 and reason 'Nombre exacto', and every candidate
\* that matches only by municipality or by part of its name has a lower
\* confidence and comes after every exact-name candidate.
C11_NombreExactoPrimero ==
  PistaEsNombreExacto =>
    /\ Len(llamada.rows) >= 1
    /\ llamada.rows[1].confianza = 95
    /\ llamada.rows[1].razon = "Nombre exacto"
    /\ LOWER(llamada.rows[1].nombre) = LOWER(llamada.ubicacion)
    /\ \A i \in DOMAIN llamada.rows :
         LOWER(llamada.rows[i].nombre) # LOWER(llamada.ubicacion)
           => /\ llamada.rows[i].confianza < 95
              /\ \A j \in DOMAIN llamada.rows :
                   LOWER(llamada.rows[j].nombre) = LOWER(llamada.ubicacion)
                     => j < i
    /\ llamada.res.confianza = 95

\* The hint "MONTERREY" on a catalog with the branch 'Monterrey' and another
\* branch of the same municipality, which is returned below it.
C11_Testigo ==
  /\ PistaEsNombreExacto
  /\ llamada.ubicacion = <<"M","O","N","T","E","R","R","E","Y">>
  /\ Len(llamada.rows) >= 2
  /\ llamada.rows[2].razon = "Ciudad exacta"


\* ---- Claims on the urgency ----

UrgenciaHecha ==
  /\ llamada.op \in {"urgencia", "urgencia_queja", "urgencia_basica"}
  /\ llamada.hecho

\* The text of a computed urgency holds an emergency keyword of the pipeline,
\* in any case of letters.
ContieneEmergencia(texto) ==
  \E palabra \in { <<"i","n","t","o","x","i","c","a","c","i","ó","n">>,
                   <<"e","n","f","e","r","m","o">>,
                   <<"v","ó","m","i","t","o">>,
                   <<"a","m","b","u","l","a","n","c","i","a">>,
                   <<"h","o","s","p","i","t","a","l">> } :
    includes(LOWER(texto), palabra)

\* C12: for every sentiment, category and text, the urgency a submission
\* computes (calcularUrgencia in the pipeline, the basic webhook's step 4) is
\* an integer from 1 to 5.
C12_UrgenciaEnRango == UrgenciaHecha => llamada.res \in 1..5

C12_Testigo ==
  /\ llamada.op = "urgencia_queja"
  /\ llamada.hecho
  /\ llamada.sentimiento.sentimiento = "muy_negativo"
  /\ llamada.categoria.categoria_nombre = "Higiene y Limpieza"
  /\ llamada.res = 5

\* C13: a submission whose text contains an emergency keyword gets the
\* urgency 5 from the pipeline, whatever its sentiment and category.
C13_EmergenciaEsCinco ==
  (/\ llamada.op = "urgencia_queja"
   /\ llamada.hecho
   /\ ContieneEmergencia(llamada.descripcion)) => llamada.res = 5

\* The points of the claim's formula for a label and a category name.
PuntosDeSentimiento(s) ==
  IF s = "muy_negativo" THEN 2 ELSE IF s = "negativo" THEN 1 ELSE 0

PuntosDeCategoria(n) ==
  IF n = "Higiene y Limpieza" THEN 2
  ELSE IF n \in {"Calidad del Producto", "Personal"} THEN 1 ELSE 0

\* C14: without an emergency keyword in the text, the pipeline's urgency is
\* min(5, 1 + s + c), s by the sentiment label and c by the category name.
C14_FormulaDeUrgencia ==
  (/\ llamada.op \in {"urgencia", "urgencia_queja"}
   /\ llamada.hecho
   /\ llamada.op = "urgencia_queja" => ~ContieneEmergencia(llamada.descripcion))
  => LET suma == 1 + PuntosDeSentimiento(llamada.sentimiento.sentimiento)
                   + PuntosDeCategoria(llamada.categoria.categoria_nombre)
     IN  llamada.res = IF suma < 5 THEN suma ELSE 5

C14_Testigo ==
  /\ llamada.op = "urgencia"
  /\ llamada.hecho
  /\ llamada.sentimiento.sentimiento = "negativo"
  /\ llamada.categoria.categoria_nombre = "Personal"
  /\ llamada.res = 3


\* ---- Claims on the keywords ----

ClaveHecha == llamada.op = "palabras_clave" /\ llamada.hecho

\* The tokens of a text: the runs of word characters of its lowercase form.
FichasDe(texto) ==
  SelectSeq(split(SinSimbolos(LOWER(texto))), LAMBDA f : f # <<>>)

\* A token passes the filters the claim names.
FichaValida(f) ==
  /\ Len(f) > 3
  /\ f \notin palabrasComunes
  /\ ~TodasEn(f, Cifras)

VecesEn(texto, f) ==
  Cardinality({ i \in DOMAIN FichasDe(texto) : FichasDe(texto)[i] = f })

PrimeraVezEn(texto, f) ==
  CHOOSE i \in DOMAIN FichasDe(texto) :
    /\ FichasDe(texto)[i] = f
    /\ \A j \in 1..(i - 1) : FichasDe(texto)[j] # f

\* C15: extraerPalabrasClave returns at most 5 tokens of the text, distinct,
\* lowercase, longer than 3, outside the stop-word list and not purely
\* numeric, and leaves out no such token that is strictly more frequent than
\* a returned one.
C15_ClavesFiltradasYMasFrecuentes ==
  ClaveHecha =>
    LET texto == llamada.descripcion
        res == llamada.res
        fichas == { FichasDe(texto)[i] : i \in DOMAIN FichasDe(texto) }
    IN  /\ Len(res) <= 5
        /\ \A i, j \in DOMAIN res : i # j => res[i] # res[j]
        /\ \A i \in DOMAIN res :
             /\ res[i] \in fichas
             /\ LOWER(res[i]) = res[i]
             /\ FichaValida(res[i])
        /\ \A f \in fichas :
             (FichaValida(f) /\ \A i \in DOMAIN res : res[i] # f)
               => \A i \in DOMAIN res :
                    VecesEn(texto, f) <= VecesEn(texto, res[i])

\* C16: the keywords come by frequency, the most frequent first, and tokens
\* of equal frequency in the order of their first occurrence in the text.
C16_OrdenPorFrecuencia ==
  ClaveHecha =>
    LET texto == llamada.descripcion
        res == llamada.res
    IN  \A i, j \in DOMAIN res :
          i < j =>
            \/ VecesEn(texto, res[i]) > VecesEn(texto, res[j])
            \/ /\ VecesEn(texto, res[i]) = VecesEn(texto, res[j])
               /\ PrimeraVezEn(texto, res[i]) < PrimeraVezEn(texto, res[j])


\* ---- Claims on the normalizer ----

NormalizarHecho == llamada.op = "normalizar" /\ llamada.hecho

\* A raw value is missing, empty or made of whitespace only.
EnBlanco(x) ==
  \/ x \in {Undefined, Null}
  \/ EsCadena(x) /\ \A i \in DOMAIN x : x[i] = " "

\* C17: the normalized descripcion is a non-empty string of at most 1000
\* characters, and it is 'Sin descripción' when the submission's description
\* is missing, empty or whitespace only.
C17_DescripcionNuncaVacia ==
  (NormalizarHecho /\ ~llamada.lanzo) =>
    LET d == llamada.res.descripcion
    IN  /\ EsCadena(d)
        /\ d # <<>>
        /\ Len(d) <= 1000
        /\ (\A k \in ClavesDeDescripcion : EnBlanco(llamada.datos[k]))
             => d = SinDescripcion

\* C18: normalizarDatos returns a record for every submission, whatever the
\* type of each value: it never throws.
C18_NormalizarNuncaLanza == NormalizarHecho => ~llamada.lanzo

\* The digits of the text of a raw telephone.
DigitosDe(x) ==
  IF x \in {Undefined, Null} THEN <<>>
  ELSE SelectSeq(toString(x), LAMBDA c : c \in Cifras)

\* C19: limpiarTelefono returns the 10 digits of the input, or the last 10
\* of its 12 digits when they start with 52, if the input is not the
\* placeholder 'edna' and holds no 'url'; in every other case it returns
\* null.
C19_TelefonoDeDiezDigitos ==
  NormalizarHecho =>
    LET telefono == IF llamada.datos.telefono \in {Undefined, Null, <<>>}
                    THEN llamada.datos.Telefono
                    ELSE llamada.datos.telefono
        n == DigitosDe(telefono)
        valido == /\ telefono # <<"e","d","n","a">>
                  /\ ~includes(toString(telefono), <<"u","r","l">>)
    IN  /\ ~llamada.lanzo
        /\ llamada.res.telefono =
             IF valido /\ Len(n) = 10 THEN n
             ELSE IF valido /\ Len(n) = 12 /\ n[1] = "5" /\ n[2] = "2"
             THEN SubSeq(n, 3, 12)
             ELSE Null


\* ---- Claims on the insights ----

\* The insights of kind 'queja_critica' that submission r has in the table.
InsightsDe(r) ==
  { i \in insights_ia : i.por = r /\ i.tipo_insight = "queja_critica" }

\* C20: in the IA server a committed submission has exactly one insight of
\* kind 'queja_critica' in the table if its urgency is 4 or 5 and none if it
\* is 3 or less; a submission that was rolled back, or is not yet committed,
\* has none.
C20_UnInsightPorQuejaCritica ==
  programa = "ia" =>
    \A r \in Solicitudes :
      /\ tx[r].estado = "COMMIT" =>
           /\ sol[r].urgencia >= 4 => Cardinality(InsightsDe(r)) = 1
           /\ sol[r].urgencia <= 3 => InsightsDe(r) = {}
      /\ tx[r].estado # "COMMIT" => { i \in insights_ia : i.por = r } = {}

C20_Testigo ==
  /\ programa = "ia"
  /\ \E r, q \in Solicitudes :
       /\ tx[r].estado = "COMMIT"
       /\ sol[r].urgencia >= 4
       /\ Cardinality(InsightsDe(r)) = 1
       /\ tx[q].estado = "ROLLBACK"
       /\ sol[q].urgencia >= 4
       /\ sol[q].fallo = "commit"


\* ---- Claims on the customers ----

\* Submission r has answered with success.
Atendida(r) == sol[r].pc = "fin" /\ sol[r].fallo = "ninguno"

\* The valid telephone of submission r, or null.
TelefonoDe(r) ==
  limpiarTelefono(O(sol[r].datos.telefono, sol[r].datos.Telefono))

\* The customers submission r created.
CreadosPor(r) == { c \in clientes : c.por = r }

\* C21: a processed submission with a valid telephone of a stored customer
\* takes that customer's id and creates no row; one with a valid telephone
\* creates at most one customer, with that telephone and segment 'nuevo';
\* one without a valid telephone creates one customer of its own with segment
\* 'anonimo'.
C21_IdentidadDeCliente ==
  \A r \in Solicitudes :
    Atendida(r) =>
      LET telefono == TelefonoDe(r)
          creados == CreadosPor(r)
      IN  IF telefono # Null
          THEN /\ \E c \in clientes :
                    c.id = sol[r].clienteId /\ c.telefono = telefono
               /\ (\E c \in clientes : c.por = 0 /\ c.telefono = telefono)
                    => creados = {}
               /\ \A c \in creados :
                    /\ creados = {c}
                    /\ c.id = sol[r].clienteId
                    /\ c.segmento_cliente = "nuevo"
          ELSE \E c \in creados :
                 /\ creados = {c}
                 /\ c.id = sol[r].clienteId
                 /\ c.telefono = Null
                 /\ c.segmento_cliente = "anonimo"


\* ---- Claims on the cache ----

\* Submission r makes its call of categorizarQueja in this step.
LeeCache(r) ==
  /\ sol[r].pc = "sentimiento"
  /\ sol'[r].pc # "sentimiento"
  /\ sol'[r].fallo = "ninguno"

\* A call of cargarCaches has started and not finished.
RecargaEnCurso == \E c \in Cargas : cargador[c] # "fin"

\* C22: a call of categorizarQueja reads a cache holding all the rows of a
\* load, in the state before or after a reload, and never an empty or
\* partly filled cache while a call of cargarCaches is in progress.
C22_RecargaAtomica ==
  [][\A r \in Solicitudes :
       LeeCache(r) =>
         \/ \E rows \in OrdenesDeFilas : categoriasCache = CacheDe(rows)
         \/ categoriasCache = CacheVacio /\ ~RecargaEnCurso]_vars


\* ---- Claims on the persisted complaint ----

\* The caches a submission may read: never loaded, or loaded in some order.
CachesLegibles == { CacheVacio } \cup { CacheDe(f) : f \in OrdenesDeCarga }

\* The row q of quejas holds what the components give for submission r.
SinDeriva(q, r) ==
  LET norm == normalizarDatos(sol[r].datos)
      sentimiento == analizar_sentimiento_basico(norm.descripcion)
      filas == IF ConsultaSucursales(norm.sucursal)
               THEN buscar_sucursales_inteligente(TablaSucursales,
                                                  norm.sucursal, 3)
               ELSE { <<>> }
  IN  /\ q.sentimiento = sentimiento.sentimiento
      /\ q.score_sentimiento = sentimiento.score
      /\ q.palabras_clave = extraerPalabrasClave(norm.descripcion)
      /\ \E cache \in CachesLegibles :
           LET categoria == categorizarQueja(cache, norm.descripcion)
           IN  /\ q.categoria_id = categoria.categoria_id
               /\ q.urgencia = calcularUrgencia(sentimiento, categoria)
      /\ \E rows \in filas :
           LET busqueda == buscarSucursalInteligente(norm.sucursal, rows)
           IN  /\ q.sucursal_id = busqueda.sucursal_id
               /\ q.confianza_mapeo = busqueda.confianza
               /\ q.sucursales_candidatas = busqueda.candidatas

\* C23: the complaint a submission of the IA server commits holds the
\* sentiment label and score, category id, urgency, keywords, branch id,
\* confidence and candidate ids that the components return for the
\* submission's normalized text and branch hint.
C23_SinDeriva ==
  programa = "ia" =>
    \A q \in quejas : q.por # 0 => SinDeriva(q, q.por)

C23_Testigo ==
  /\ programa = "ia"
  /\ \E q \in quejas :
       /\ q.por # 0
       /\ q.categoria_id # 10
       /\ q.sucursal_id # IdNulo
       /\ Len(q.sucursales_candidatas) >= 2
       /\ Len(q.palabras_clave) = 2
       /\ SinDeriva(q, q.por)


\* C24: the table never holds two customer rows with the same telephone,
\* whatever the interleaving of the submissions.
C24_UnClientePorTelefono ==
  \A c, d \in clientes :
    (c.telefono # Null /\ c.telefono = d.telefono) => c.id = d.id


\* No submission is being processed.
NadaEnCurso == \A r \in Solicitudes : sol[r].pc \in {"nueva", "fin"}

\* C25: once every submission of the IA server has committed or rolled back,
\* total_quejas of every customer is the number of rows of quejas with its id.
C25_ConteoExacto ==
  (programa = "ia" /\ NadaEnCurso) =>
    \A c \in clientes :
      c.total_quejas = Cardinality({ q \in quejas : q.cliente_id = c.id })


\* Every cache load has ended.
CargasTerminadas == \A c \in Cargas : cargador[c] = "fin"

\* C26: when the cache loads of the IA server have ended and no submission
\* is being processed, no client of the pool remains checked out.
C26_ClientesDevueltos ==
  (programa = "ia" /\ CargasTerminadas /\ NadaEnCurso) => prestados = 0


\* C27: a complaint of the IA server whose categorization matched a keyword
\* stores the identifier of the matched subcategory, which is not null.
C27_SubcategoriaPersistida ==
  programa = "ia" =>
    \A q \in quejas :
      (q.por # 0 /\ sol[q.por].categoria.keyword_encontrada # Null) =>
        /\ sol[q.por].categoria.subcategoria_id \notin {IdNulo, IdIndefinido}
        /\ q.subcategoria_id = sol[q.por].categoria.subcategoria_id


\* The place of a writing statement in the order customer, complaint,
\* statistics, insight; 0 for any other statement.
RangoDeEscritura(x) ==
  CASE x = "INSERT clientes" -> 1
    [] x = "INSERT quejas" -> 2
    [] x = "UPDATE clientes" -> 3
    [] x = "INSERT insights_ia" -> 4
    [] OTHER -> 0

VecesEmitida(e, x) == Cardinality({ i \in DOMAIN e : e[i] = x })

\* BEGIN, writes in their order, one terminator, release.
Encorchetada(e) ==
  /\ Len(e) >= 3
  /\ e[1] = "BEGIN"
  /\ e[Len(e)] = "release"
  /\ e[Len(e) - 1] \in {"COMMIT", "ROLLBACK"}
  /\ VecesEmitida(e, "COMMIT") + VecesEmitida(e, "ROLLBACK") = 1
  /\ \A i \in 2..(Len(e) - 2) : RangoDeEscritura(e[i]) > 0
  /\ \A i, j \in 2..(Len(e) - 2) :
       i < j => RangoDeEscritura(e[i]) < RangoDeEscritura(e[j])

\* C28: the statements a finished submission of the IA server sent are
\* BEGIN, then its writes in the order customer, complaint, statistics,
\* insight, then exactly one of COMMIT and ROLLBACK, then the release.
C28_TransaccionEncorchetada ==
  programa = "ia" =>
    \A r \in Solicitudes :
      (sol[r].pc = "fin" /\ sol[r].fallo # "conectar") =>
        Encorchetada(sol[r].emitidas)

\* The statements of e with the COMMIT that failed taken out.
SinCommitFallido(e) ==
  SelectSeq(e, LAMBDA x : x # "COMMIT")

\* C28, amended: a submission that got no client sends nothing; any other
\* sends BEGIN, its writes in order, and then either COMMIT alone, or
\* ROLLBACK, which comes after a COMMIT exactly when the COMMIT failed; the
\* release is last.
C28_CorchetesConCommitFallido ==
  programa = "ia" =>
    \A r \in Solicitudes :
      sol[r].pc = "fin" =>
        LET e == sol[r].emitidas
        IN  CASE sol[r].fallo = "conectar" -> e = <<>>
              [] sol[r].fallo = "commit" ->
                   /\ Encorchetada(SinCommitFallido(e))
                   /\ Len(e) >= 4
                   /\ SubSeq(e, Len(e) - 2, Len(e)) =
                        <<"COMMIT", "ROLLBACK", "release">>
                   /\ VecesEmitida(e, "COMMIT") = 1
              [] OTHER ->
                   /\ Encorchetada(e)
                   /\ (e[Len(e) - 1] = "COMMIT") = (sol[r].fallo = "ninguno")
                   /\ (e[Len(e) - 1] = "COMMIT") = sol[r].respuesta.success

\* A submission with an insight whose COMMIT failed, and another that made
\* its customer and committed.
C28_Testigo ==
  /\ programa = "ia"
  /\ \E r, q \in Solicitudes :
       /\ sol[r].pc = "fin"
       /\ sol[r].fallo = "commit"
       /\ sol[r].emitidas =
            <<"BEGIN", "INSERT quejas", "UPDATE clientes",
              "INSERT insights_ia", "COMMIT", "ROLLBACK", "release">>
       /\ sol[q].pc = "fin"
       /\ sol[q].emitidas =
            <<"BEGIN", "INSERT clientes", "INSERT quejas", "UPDATE clientes",
              "COMMIT", "release">>


\* The descriptions of the submissions, as the categorizer receives them.
DescripcionesRecibidas == { normalizarDatos(d).descripcion : d \in Entradas }

\* C29: a reload of a loaded cache leaves the order of its categories and
\* subcategories as it was, and with it the result of the categorizer for
\* every description.
C29_RecargaDeterminista ==
  [][(categoriasCache # CacheVacio /\ categoriasCache' # CacheVacio) =>
       /\ categoriasCache' = categoriasCache
       /\ \A d \in DescripcionesRecibidas :
            categorizarQueja(categoriasCache', d) =
              categorizarQueja(categoriasCache, d)]_vars


\* C30: the branch resolver returns no branch, no candidate and confidence 0
\* together or not at all; otherwise the branch is the first candidate, the
\* candidates are one to three different branches, and the confidence is
\* that of the first row and at least 0.60.
C30_ResultadoDeSucursalCoherente ==
  BuscarHecho =>
    LET res == llamada.res
        n == Len(res.candidatas)
    IN  /\ (res.sucursal_id = IdNulo) = (n = 0)
        /\ (n = 0) = (res.confianza = 0)
        /\ n > 0 =>
             /\ res.sucursal_id = res.candidatas[1]
             /\ n \in 1..3
             /\ \A i, j \in 1..n :
                  res.candidatas[i] = res.candidatas[j] => i = j
             /\ res.confianza = llamada.rows[1].confianza
             /\ res.confianza >= 60

\* A search that returned three candidates, the first not an exact match.
C30_Testigo ==
  /\ BuscarHecho
  /\ Len(llamada.res.candidatas) = 3
  /\ llamada.res.sucursal_id = llamada.res.candidatas[1]
  /\ llamada.res.confianza \in 60..99

====
